---- MODULE Spec2Model ----
(***************************************************************************)
(* aaf2resolve-spec: the canonical-JSON validator                          *)
(* (src/src/validate_canonical.py), its command line, and the segment      *)
(* walkers of the builder (src/src/build_canonical.py, src/parse_aaf.py).  *)
(*                                                                         *)
(* JSON values are tagged records.  A Python dict is kept as the ordered   *)
(* sequence of its <<key, value>> items, so iteration order is insertion   *)
(* order as in Python.  A string value is the sequence of its characters.  *)
(* A number n is kept as [n, half]: the value n, or n + 1/2 when half.     *)
(***************************************************************************)
EXTENDS Integers, Sequences, FiniteSets, TLC

VARIABLES
    pc,          \* "start" before the call; "done", "built", "parsed" or
                 \* "parse_failed" after it
    file,        \* what the path given to the command line holds
    data,        \* the parsed JSON value handed to validate_canonical_json
    outcome,     \* what the call produced: a report, or an exception
    exit_code,   \* the status the validate command exits with (-1: not run)
    report_out,  \* where main wrote the report: "stdout", "file" or "none"
    slots,       \* the segments of the slots of the composition mob built from
    clips,       \* the event list of the builder
    processed_ranges, \* the set of ranges shared by the calls of the walker
    log,         \* the walker's debug records <<segment type, offset>>
    end_offset,  \* the offset the walk of the picture slot returned
    mobs,        \* the mob map of a source resolution: mob id -> mob
    clip_ref,    \* the SourceID of the clip resolved (PyNone: it has none)
    mob_id,      \* resolve_umid_chain: the id the loop looks up next
    visited,     \* resolve_umid_chain: the ids the loop has looked up
    src_info,    \* resolve_umid_chain: the result record being filled
    content,     \* the mobs of the AAF file a build selects from
    selected,    \* the index in content of the composition selected (0: none)
    canon,       \* what build_canonical_from_aaf produced
    tmp_file,    \* memory store: the temporary file memory.jsonl.tmp
    jsonl,       \* memory store: the lines of memory.jsonl
    writers      \* memory store: the write_entry calls in progress

resolver == <<mobs, clip_ref, mob_id, visited, src_info>>
selection == <<content, selected, canon>>
store == <<tmp_file, jsonl, writers>>

vars == <<pc, file, data, outcome, exit_code, report_out,
          slots, clips, processed_ranges, log, end_offset,
          mobs, clip_ref, mob_id, visited, src_info, content, selected, canon,
          tmp_file, jsonl, writers>>

(***************************************************************************)
(* JSON values and the Python operations the validator applies to them.    *)
(***************************************************************************)
JNull == [t |-> "null"]
JBool(b) == [t |-> "bool", b |-> b]
JNum(n) == [t |-> "num", n |-> n, half |-> FALSE]
JHalf(n) == [t |-> "num", n |-> n, half |-> TRUE]
JStr(s) == [t |-> "str", s |-> s]
JArr(a) == [t |-> "arr", a |-> a]
JObj(kv) == [t |-> "obj", kv |-> kv]

EmptyObj == JObj(<<>>)
EmptyArr == JArr(<<>>)

\* Twice the numeric value of a JSON number (keeps the arithmetic integral).
Twice(v) == 2 * v.n + (IF v.half THEN 1 ELSE 0)

\* key in d
HasKey(d, k) == \E i \in 1..Len(d.kv) : d.kv[i][1] = k

\* d[k]
Item(d, k) == d.kv[CHOOSE i \in 1..Len(d.kv) : d.kv[i][1] = k][2]

\* d.get(k, default)
dict_get(d, k, default) == IF HasKey(d, k) THEN Item(d, k) ELSE default

\* bool(v): None, False, 0, "", [] and {} are falsy.
Truthy(v) ==
    CASE v.t = "null" -> FALSE
      [] v.t = "bool" -> v.b
      [] v.t = "num" -> Twice(v) # 0
      [] v.t = "str" -> Len(v.s) > 0
      [] v.t = "arr" -> Len(v.a) > 0
      [] v.t = "obj" -> Len(v.kv) > 0

\* v or default
PyOr(v, default) == IF Truthy(v) THEN v ELSE default

Whitespace == {" ", "\t", "\n"}

\* bool(u.strip()) for a string u
StripIsNonEmpty(s) == \E i \in 1..Len(s) : s[i] \notin Whitespace

Digit == {"0", "1", "2", "3", "4", "5", "6", "7", "8", "9"}

\* Elements of a JSON path: a dict key, or a list index.  An index is
\* rendered ".<i>" in the paths of schema errors and "[<i>]" in the paths
\* the additional validations build.
K(name) == [name |-> name]
I(i) == [idx |-> i]
B(i) == [brk |-> i]

(***************************************************************************)
(* The schema.  A schema object is the sequence of its <<keyword, value>>  *)
(* items in source order; "$schema", "$id", "title" and "description",     *)
(* which produce no errors, are left out.                                  *)
(***************************************************************************)
EventIdRegex == "^ev_\\d{4}$"

StringOrNull ==
    << <<"oneOf", << << <<"type", "string">> >>, << <<"type", "null">> >> >> >> >>

FramesOrNull ==
    << <<"oneOf", << << <<"type", "integer">>, <<"minimum", 0>> >>,
                     << <<"type", "null">> >> >> >> >>

SchemaEvent ==
    << <<"type", "object">>,
       <<"required", <<"id", "timeline_start_frames", "length_frames",
                       "source", "effect">> >>,
       <<"additionalProperties", FALSE>>,
       <<"properties", <<
           <<"id", << <<"type", "string">>, <<"pattern", EventIdRegex>> >> >>,
           <<"timeline_start_frames",
               << <<"type", "integer">>, <<"minimum", 0>> >> >>,
           <<"length_frames", << <<"type", "integer">>, <<"minimum", 1>> >> >>,
           <<"source", << <<"oneOf", << << <<"type", "null">> >>,
                                        << <<"$ref", "source">> >> >> >> >> >>,
           <<"effect", << <<"$ref", "effect">> >> >>
       >> >> >>

SchemaSourceOriginal ==
    << <<"type", "object">>,
       <<"required", <<"path", "umid_chain", "tape_id", "disk_label",
                       "src_tc_start_frames", "src_rate_fps", "src_drop">> >>,
       <<"additionalProperties", FALSE>>,
       <<"properties", <<
           <<"path", StringOrNull>>,
           <<"umid_chain", << <<"type", "array">>,
                              <<"items", << <<"type", "string">> >> >> >> >>,
           <<"tape_id", StringOrNull>>,
           <<"disk_label", StringOrNull>>,
           <<"src_tc_start_frames", FramesOrNull>>,
           <<"src_rate_fps",
               << <<"type", "number">>, <<"exclusiveMinimum", 0>> >> >>,
           <<"src_drop", << <<"type", "boolean">> >> >>,
           <<"source_duration_frames", FramesOrNull>>
       >> >> >>

SchemaSource ==
    << <<"type", "object">>,
       <<"required", <<"original">> >>,
       <<"additionalProperties", FALSE>>,
       <<"properties", <<
           <<"original", SchemaSourceOriginal>>,
           <<"derived", << <<"type", "object">>,
                           <<"additionalProperties", TRUE>> >> >>,
           <<"extensions", << <<"type", "object">>,
                              <<"additionalProperties", TRUE>> >> >>
       >> >> >>

SchemaEffect ==
    << <<"type", "object">>,
       <<"required", <<"name", "on_filler", "parameters", "keyframes",
                       "external_refs">> >>,
       <<"additionalProperties", FALSE>>,
       <<"properties", <<
           <<"name", << <<"type", "string">> >> >>,
           <<"on_filler", << <<"type", "boolean">> >> >>,
           <<"parameters", << <<"type", "object">>,
               <<"patternProperties", <<
                   <<".*", << <<"oneOf", << << <<"type", "number">> >>,
                                            << <<"type", "string">> >>,
                                            << <<"type", "null">> >> >> >> >> >>
               >> >> >> >>,
           <<"keyframes", << <<"type", "object">>,
               <<"patternProperties", <<
                   <<".*", << <<"type", "array">>,
                              <<"items", << <<"$ref", "keyframe">> >> >> >> >>
               >> >> >> >>,
           <<"external_refs", << <<"type", "array">>,
               <<"items", << <<"$ref", "external_ref">> >> >> >> >>
       >> >> >>

SchemaKeyframe ==
    << <<"type", "object">>,
       <<"required", <<"t", "v">> >>,
       <<"additionalProperties", FALSE>>,
       <<"properties", <<
           <<"t", << <<"type", "number">>, <<"minimum", 0>> >> >>,
           <<"v", << <<"oneOf", << << <<"type", "number">> >>,
                                   << <<"type", "string">> >> >> >> >> >>
       >> >> >>

SchemaExternalRef ==
    << <<"type", "object">>,
       <<"required", <<"kind", "path">> >>,
       <<"additionalProperties", FALSE>>,
       <<"properties", <<
           <<"kind", << <<"type", "string">>,
                        <<"enum", << <<"i", "m", "a", "g", "e">>,
                                     <<"m", "a", "t", "t", "e">>,
                                     <<"u", "n", "k", "n", "o", "w", "n">> >> >> >> >>,
           <<"path", << <<"type", "string">> >> >>
       >> >> >>

\* schema["definitions"][name]
SchemaDefinition(name) ==
    CASE name = "event" -> SchemaEvent
      [] name = "source" -> SchemaSource
      [] name = "effect" -> SchemaEffect
      [] name = "keyframe" -> SchemaKeyframe
      [] name = "external_ref" -> SchemaExternalRef

get_canonical_json_schema ==
    << <<"type", "object">>,
       <<"required", <<"project", "timeline">> >>,
       <<"additionalProperties", FALSE>>,
       <<"properties", <<
           <<"project", <<
               <<"type", "object">>,
               <<"required", <<"name", "edit_rate_fps", "tc_format">> >>,
               <<"additionalProperties", FALSE>>,
               <<"properties", <<
                   <<"name", << <<"type", "string">> >> >>,
                   <<"edit_rate_fps",
                       << <<"type", "number">>, <<"exclusiveMinimum", 0>> >> >>,
                   <<"tc_format", << <<"type", "string">>,
                       <<"enum", << <<"D", "F">>, <<"N", "D", "F">> >> >> >> >>
               >> >> >> >>,
           <<"timeline", <<
               <<"type", "object">>,
               <<"required", <<"name", "start_tc_frames", "events">> >>,
               <<"additionalProperties", FALSE>>,
               <<"properties", <<
                   <<"name", << <<"type", "string">> >> >>,
                   <<"start_tc_frames",
                       << <<"type", "integer">>, <<"minimum", 0>> >> >>,
                   <<"events", << <<"type", "array">>,
                       <<"items", << <<"$ref", "event">> >> >> >> >>
               >> >> >> >>
       >> >> >>

(***************************************************************************)
(* Draft7Validator.iter_errors (jsonschema): the errors of an instance     *)
(* against a schema, in the order the library yields them (the schema's    *)
(* keywords in dict order, depth first).  An error keeps the keyword that  *)
(* failed, the absolute path of the instance it is about and, for          *)
(* "required", the key its message quotes.                                 *)
(***************************************************************************)
SchemaError(validator, path, missing) ==
    [validator |-> validator, path |-> path, missing |-> missing]

KeywordIndex(schema, kw) ==
    IF \E i \in 1..Len(schema) : schema[i][1] = kw
    THEN CHOOSE i \in 1..Len(schema) : schema[i][1] = kw
    ELSE 0

\* The type checks of the draft-07 type checker: bool is no number, and a
\* float with no fractional part is an integer.
is_type(inst, ty) ==
    CASE ty = "object" -> inst.t = "obj"
      [] ty = "array" -> inst.t = "arr"
      [] ty = "string" -> inst.t = "str"
      [] ty = "boolean" -> inst.t = "bool"
      [] ty = "null" -> inst.t = "null"
      [] ty = "number" -> inst.t = "num"
      [] ty = "integer" -> inst.t = "num" /\ ~inst.half

\* re.search("^ev_\\d{4}$", s): "$" also matches before a final newline.
re_search_event_id(s) ==
    /\ Len(s) \in {7, 8}
    /\ s[1] = "e" /\ s[2] = "v" /\ s[3] = "_"
    /\ \A i \in 4..7 : s[i] \in Digit
    /\ Len(s) = 8 => s[8] = "\n"

\* re.search(pattern, s) for the patterns of the schema.
re_search(pattern, s) ==
    CASE pattern = EventIdRegex -> re_search_event_id(s)
      [] pattern = ".*" -> TRUE

RECURSIVE iter_errors(_, _, _)
RECURSIVE keyword_errors(_, _, _, _, _)

is_valid(schema, inst) == Len(iter_errors(schema, inst, <<>>)) = 0

keyword_errors(kw, arg, schema, inst, path) ==
    CASE kw = "type" ->
           IF is_type(inst, arg) THEN <<>>
           ELSE <<SchemaError("type", path, "")>>
      [] kw = "required" ->
           IF inst.t # "obj" THEN <<>>
           ELSE LET acc[i \in 0..Len(arg)] ==
                      IF i = 0 THEN <<>>
                      ELSE IF HasKey(inst, arg[i]) THEN acc[i - 1]
                      ELSE Append(acc[i - 1],
                                  SchemaError("required", path, arg[i]))
                IN acc[Len(arg)]
      [] kw = "additionalProperties" ->
           IF inst.t # "obj" \/ arg THEN <<>>
           ELSE LET pi == KeywordIndex(schema, "properties")
                    props == IF pi = 0 THEN <<>> ELSE schema[pi][2]
                    extras == {i \in 1..Len(inst.kv) :
                                  \A j \in 1..Len(props) :
                                      props[j][1] # inst.kv[i][1]}
                IN IF extras = {} THEN <<>>
                   ELSE <<SchemaError("additionalProperties", path, "")>>
      [] kw = "properties" ->
           IF inst.t # "obj" THEN <<>>
           ELSE LET acc[i \in 0..Len(arg)] ==
                      IF i = 0 THEN <<>>
                      ELSE IF ~HasKey(inst, arg[i][1]) THEN acc[i - 1]
                      ELSE acc[i - 1] \o
                           iter_errors(arg[i][2], Item(inst, arg[i][1]),
                                       Append(path, K(arg[i][1])))
                IN acc[Len(arg)]
      [] kw = "patternProperties" ->
           IF inst.t # "obj" THEN <<>>
           ELSE LET n == Len(inst.kv)
                    acc[c \in 0..(Len(arg) * n)] ==
                      IF c = 0 THEN <<>>
                      ELSE LET p == ((c - 1) \div n) + 1
                               i == ((c - 1) % n) + 1
                           IN IF ~re_search(arg[p][1], inst.kv[i][1])
                              THEN acc[c - 1]
                              ELSE acc[c - 1] \o
                                   iter_errors(arg[p][2], inst.kv[i][2],
                                               Append(path, K(inst.kv[i][1])))
                IN acc[Len(arg) * n]
      [] kw = "items" ->
           IF inst.t # "arr" THEN <<>>
           ELSE LET acc[i \in 0..Len(inst.a)] ==
                      IF i = 0 THEN <<>>
                      ELSE acc[i - 1] \o
                           iter_errors(arg, inst.a[i], Append(path, I(i - 1)))
                IN acc[Len(inst.a)]
      [] kw = "oneOf" ->
           LET valid == {i \in 1..Len(arg) : is_valid(arg[i], inst)}
           IN IF Cardinality(valid) = 1 THEN <<>>
              ELSE <<SchemaError("oneOf", path, "")>>
      [] kw = "enum" ->
           IF inst.t = "str" /\ \E i \in 1..Len(arg) : arg[i] = inst.s
           THEN <<>>
           ELSE <<SchemaError("enum", path, "")>>
      [] kw = "pattern" ->
           IF inst.t # "str" \/ re_search(arg, inst.s) THEN <<>>
           ELSE <<SchemaError("pattern", path, "")>>
      [] kw = "minimum" ->
           IF inst.t = "num" /\ Twice(inst) < 2 * arg
           THEN <<SchemaError("minimum", path, "")>>
           ELSE <<>>
      [] kw = "exclusiveMinimum" ->
           IF inst.t = "num" /\ Twice(inst) <= 2 * arg
           THEN <<SchemaError("exclusiveMinimum", path, "")>>
           ELSE <<>>
      [] OTHER -> <<>>

iter_errors(schema, inst, path) ==
    LET ref == KeywordIndex(schema, "$ref")
        acc[i \in 0..Len(schema)] ==
            IF i = 0 THEN <<>>
            ELSE acc[i - 1] \o
                 keyword_errors(schema[i][1], schema[i][2], schema, inst, path)
    IN IF ref # 0
       THEN iter_errors(SchemaDefinition(schema[ref][2]), inst, path)
       ELSE acc[Len(schema)]

(***************************************************************************)
(* Reason codes (class ReasonCodes) and the mapping of schema errors.      *)
(***************************************************************************)
MISSING_PROJECT == "CANON-REQ-001"
MISSING_TIMELINE == "CANON-REQ-002"
EXTRA_TOP_LEVEL_KEYS == "CANON-REQ-003"
MISSING_PROJECT_NAME == "CANON-REQ-004"
MISSING_PROJECT_EDIT_RATE == "CANON-REQ-005"
MISSING_PROJECT_TC_FORMAT == "CANON-REQ-006"
INVALID_TC_FORMAT == "CANON-REQ-007"
INVALID_EDIT_RATE == "CANON-REQ-008"
MISSING_TIMELINE_NAME == "CANON-REQ-009"
MISSING_TIMELINE_START_TC == "CANON-REQ-010"
MISSING_TIMELINE_EVENTS == "CANON-REQ-011"
INVALID_START_TC_FRAMES == "CANON-REQ-012"
MISSING_EVENT_ID == "CANON-REQ-013"
MISSING_EVENT_TIMELINE_START == "CANON-REQ-014"
MISSING_EVENT_LENGTH == "CANON-REQ-015"
MISSING_EVENT_SOURCE == "CANON-REQ-016"
MISSING_EVENT_EFFECT == "CANON-REQ-017"
INVALID_TIMELINE_START == "CANON-REQ-018"
INVALID_LENGTH_FRAMES == "CANON-REQ-019"
INVALID_EVENT_ID_FORMAT == "CANON-REQ-020"
MISSING_SOURCE_PATH == "CANON-REQ-021"
MISSING_SOURCE_UMID_CHAIN == "CANON-REQ-022"
MISSING_SOURCE_TAPE_ID == "CANON-REQ-023"
MISSING_SOURCE_DISK_LABEL == "CANON-REQ-024"
MISSING_SOURCE_TC_START == "CANON-REQ-025"
MISSING_SOURCE_RATE_FPS == "CANON-REQ-026"
MISSING_SOURCE_DROP == "CANON-REQ-027"
INVALID_UMID_CHAIN == "CANON-REQ-028"
MISSING_EFFECT_NAME == "CANON-REQ-029"
MISSING_EFFECT_ON_FILLER == "CANON-REQ-030"
MISSING_EFFECT_PARAMETERS == "CANON-REQ-031"
MISSING_EFFECT_KEYFRAMES == "CANON-REQ-032"
MISSING_EFFECT_EXTERNAL_REFS == "CANON-REQ-033"
MISSING_KEYFRAME_TIME == "CANON-REQ-034"
MISSING_KEYFRAME_VALUE == "CANON-REQ-035"
INVALID_KEYFRAME_TIME == "CANON-REQ-036"
KEYFRAME_TIME_ORDER == "CANON-REQ-037"
MISSING_EXTREF_KIND == "CANON-REQ-038"
MISSING_EXTREF_PATH == "CANON-REQ-039"
CANON_INTERNAL_ERROR == "CANON-INTERNAL-ERROR"
CANON_FILE_ERROR == "CANON-FILE-ERROR"
CANON_PARSE_ERROR == "CANON-PARSE-ERROR"

DocDataModel == "docs/data_model_json.md"
DocKeyframes == "docs/data_model_json.md#parameter--keyframe-capture"
DocIdentifiers == "docs/data_model_json.md#identifiers"

\* ValidationErrorReport(code, path, message, doc); the free text of the
\* message is not kept.
ValidationErrorReport(code, path, doc) ==
    [code |-> code, path |-> path, doc |-> doc]

\* name in path
InPath(name, path) == \E i \in 1..Len(path) : path[i] = K(name)

\* needle in path_str, where path_str is "$." followed by the path elements
\* joined with ".".  The keys are those of the schema: a needle that starts
\* with "." is found where a key starts with the rest of it, any other
\* needle where a key contains it.
KeysContaining(needle) ==
    CASE needle = "tc_format" -> {"tc_format"}
      [] needle = "edit_rate_fps" -> {"edit_rate_fps"}
      [] needle = "start_tc_frames" -> {"start_tc_frames"}
      [] needle = "timeline_start_frames" -> {"timeline_start_frames"}
      [] needle = "length_frames" -> {"length_frames"}
      [] needle = "keyframes" -> {"keyframes"}
      [] needle = ".t" -> {"t", "timeline", "tc_format", "tape_id",
                           "timeline_start_frames"}
      [] needle = ".id" -> {"id"}

InPathStr(needle, path) ==
    \E i \in 1..Len(path) : \E k \in KeysContaining(needle) : path[i] = K(k)

project_missing_code(missing) ==
    CASE missing = "name" -> MISSING_PROJECT_NAME
      [] missing = "edit_rate_fps" -> MISSING_PROJECT_EDIT_RATE
      [] missing = "tc_format" -> MISSING_PROJECT_TC_FORMAT
      [] OTHER -> EXTRA_TOP_LEVEL_KEYS

timeline_missing_code(missing) ==
    CASE missing = "name" -> MISSING_TIMELINE_NAME
      [] missing = "start_tc_frames" -> MISSING_TIMELINE_START_TC
      [] missing = "events" -> MISSING_TIMELINE_EVENTS
      [] OTHER -> EXTRA_TOP_LEVEL_KEYS

event_missing_code(missing) ==
    CASE missing = "id" -> MISSING_EVENT_ID
      [] missing = "timeline_start_frames" -> MISSING_EVENT_TIMELINE_START
      [] missing = "length_frames" -> MISSING_EVENT_LENGTH
      [] missing = "source" -> MISSING_EVENT_SOURCE
      [] missing = "effect" -> MISSING_EVENT_EFFECT
      [] OTHER -> EXTRA_TOP_LEVEL_KEYS

source_missing_code(missing) ==
    CASE missing = "path" -> MISSING_SOURCE_PATH
      [] missing = "umid_chain" -> MISSING_SOURCE_UMID_CHAIN
      [] missing = "tape_id" -> MISSING_SOURCE_TAPE_ID
      [] missing = "disk_label" -> MISSING_SOURCE_DISK_LABEL
      [] missing = "src_tc_start_frames" -> MISSING_SOURCE_TC_START
      [] missing = "src_rate_fps" -> MISSING_SOURCE_RATE_FPS
      [] missing = "src_drop" -> MISSING_SOURCE_DROP
      [] OTHER -> EXTRA_TOP_LEVEL_KEYS

effect_missing_code(missing) ==
    CASE missing = "name" -> MISSING_EFFECT_NAME
      [] missing = "on_filler" -> MISSING_EFFECT_ON_FILLER
      [] missing = "parameters" -> MISSING_EFFECT_PARAMETERS
      [] missing = "keyframes" -> MISSING_EFFECT_KEYFRAMES
      [] missing = "external_refs" -> MISSING_EFFECT_EXTERNAL_REFS
      [] OTHER -> EXTRA_TOP_LEVEL_KEYS

\* The branch of the "required" chain taken for an error at `path`.
required_code(path, missing) ==
    IF Len(path) = 0
    THEN (IF missing = "project" THEN MISSING_PROJECT
          ELSE IF missing = "timeline" THEN MISSING_TIMELINE
          ELSE EXTRA_TOP_LEVEL_KEYS)
    ELSE IF path[1] = K("project") THEN project_missing_code(missing)
    ELSE IF path[1] = K("timeline") THEN timeline_missing_code(missing)
    ELSE IF InPath("events", path) THEN event_missing_code(missing)
    ELSE IF InPath("source", path) /\ InPath("original", path)
    THEN source_missing_code(missing)
    ELSE IF InPath("effect", path) THEN effect_missing_code(missing)
    ELSE EXTRA_TOP_LEVEL_KEYS

minimum_code(path) ==
    IF InPathStr("edit_rate_fps", path) THEN INVALID_EDIT_RATE
    ELSE IF InPathStr("start_tc_frames", path) THEN INVALID_START_TC_FRAMES
    ELSE IF InPathStr("timeline_start_frames", path) THEN INVALID_TIMELINE_START
    ELSE IF InPathStr("length_frames", path) THEN INVALID_LENGTH_FRAMES
    ELSE IF InPathStr("keyframes", path) /\ InPathStr(".t", path)
    THEN INVALID_KEYFRAME_TIME
    ELSE EXTRA_TOP_LEVEL_KEYS

pattern_code(path) ==
    IF InPathStr(".id", path) THEN INVALID_EVENT_ID_FORMAT
    ELSE EXTRA_TOP_LEVEL_KEYS

map_validation_error_to_reason_code(error) ==
    LET path == error.path
        code ==
            IF error.validator = "required"
            THEN required_code(path, error.missing)
            ELSE IF error.validator = "enum" /\ InPathStr("tc_format", path)
            THEN INVALID_TC_FORMAT
            ELSE IF error.validator \in {"minimum", "exclusiveMinimum"}
            THEN minimum_code(path)
            ELSE IF error.validator = "pattern" THEN pattern_code(path)
            ELSE EXTRA_TOP_LEVEL_KEYS
    IN ValidationErrorReport(code, path, DocDataModel)

(***************************************************************************)
(* _run_additional_validations.  Each block yields the errors it appended  *)
(* and whether an exception left it (exc): an AttributeError from .get or  *)
(* .items on a value that is no dict, a TypeError from iterating a value   *)
(* that is no iterable.  The t values of the documents drawn are numbers,  *)
(* so sorted(times) itself does not raise.                                 *)
(***************************************************************************)
\* list(v) for enumerate(v): [ok, items].  A string iterates its characters
\* and a dict its keys (strings either way); None, bool and numbers raise.
Iterate(v) ==
    CASE v.t = "arr" -> [ok |-> TRUE, items |-> v.a]
      [] v.t = "str" ->
           [ok |-> TRUE, items |-> [i \in 1..Len(v.s) |-> JStr(<<v.s[i]>>)]]
      [] v.t = "obj" ->
           [ok |-> TRUE, items |-> [i \in 1..Len(v.kv) |-> JStr(<<v.kv[i][1]>>)]]
      [] OTHER -> [ok |-> FALSE, items |-> <<>>]

\* data.get("timeline", {}).get("events", []) and list(enumerate(...))
EventsOf(d) ==
    IF d.t # "obj" THEN [ok |-> FALSE, items |-> <<>>]
    ELSE LET tl == dict_get(d, "timeline", EmptyObj)
         IN IF tl.t # "obj" THEN [ok |-> FALSE, items |-> <<>>]
            ELSE Iterate(dict_get(tl, "events", EmptyArr))

\* sorted(times): insertion sort, stable, on the numeric values.
RECURSIVE InsertSorted(_, _)
InsertSorted(sorted, x) ==
    IF Len(sorted) = 0 THEN <<x>>
    ELSE IF sorted[Len(sorted)] <= x THEN Append(sorted, x)
    ELSE Append(InsertSorted(SubSeq(sorted, 1, Len(sorted) - 1), x),
                sorted[Len(sorted)])

SortedSeq(times) ==
    LET acc[i \in 0..Len(times)] ==
            IF i = 0 THEN <<>> ELSE InsertSorted(acc[i - 1], times[i])
    IN acc[Len(times)]

\* [k.get("t") for k in arr if isinstance(k, dict) and "t" in k], as twice
\* the numeric values
KeyframeTimes(arr) ==
    LET acc[i \in 0..Len(arr)] ==
            IF i = 0 THEN <<>>
            ELSE IF arr[i].t = "obj" /\ HasKey(arr[i], "t")
                 THEN Append(acc[i - 1], Twice(Item(arr[i], "t")))
                 ELSE acc[i - 1]
    IN acc[Len(arr)]

\* times != sorted(times)
TimesOutOfOrder(times) == times # SortedSeq(times)

KeyframePath(ei, pname) ==
    <<K("timeline"), K("events"), B(ei), K("effect"), K("keyframes"), K(pname)>>

\* The body of the keyframe loop for event number ei (0-based).
EventKeyframeErrors(ei, ev) ==
    IF ev.t # "obj" THEN [exc |-> TRUE, errors |-> <<>>]
    ELSE LET effect == PyOr(dict_get(ev, "effect", EmptyObj), EmptyObj)
         IN IF effect.t # "obj" THEN [exc |-> TRUE, errors |-> <<>>]
            ELSE LET kfs == PyOr(dict_get(effect, "keyframes", EmptyObj),
                                 EmptyObj)
                 IN IF kfs.t # "obj" THEN [exc |-> TRUE, errors |-> <<>>]
                    ELSE LET acc[i \in 0..Len(kfs.kv)] ==
                               IF i = 0 THEN <<>>
                               ELSE LET pname == kfs.kv[i][1]
                                        arr == kfs.kv[i][2]
                                    IN IF /\ arr.t = "arr"
                                          /\ Len(arr.a) > 1
                                          /\ TimesOutOfOrder(KeyframeTimes(arr.a))
                                       THEN Append(acc[i - 1],
                                              ValidationErrorReport(
                                                KEYFRAME_TIME_ORDER,
                                                KeyframePath(ei, pname),
                                                DocKeyframes))
                                       ELSE acc[i - 1]
                         IN [exc |-> FALSE, errors |-> acc[Len(kfs.kv)]]

\* The try block: the loop stops at the first exception, which the except
\* clause turns into one CANON-INTERNAL-ERROR entry.
KeyframeOrderBlock(d) ==
    LET evs == EventsOf(d)
        acc[i \in 0..Len(evs.items)] ==
            IF i = 0 THEN [exc |-> ~evs.ok, errors |-> <<>>]
            ELSE IF acc[i - 1].exc THEN acc[i - 1]
            ELSE LET r == EventKeyframeErrors(i - 1, evs.items[i])
                 IN [exc |-> r.exc, errors |-> acc[i - 1].errors \o r.errors]
        last == acc[Len(evs.items)]
    IN IF last.exc
       THEN Append(last.errors,
                   ValidationErrorReport(CANON_INTERNAL_ERROR, <<>>, DocDataModel))
       ELSE last.errors

UmidPath(ei, ui) ==
    <<K("timeline"), K("events"), B(ei), K("source"), K("original"),
      K("umid_chain"), B(ui)>>

\* not isinstance(u, str) or not u.strip()
UmidEntryInvalid(u) == u.t # "str" \/ ~StripIsNonEmpty(u.s)

\* The body of the UMID loop for event number ei (0-based).
EventUmidErrors(ei, ev) ==
    IF ev.t # "obj" THEN [exc |-> TRUE, errors |-> <<>>]
    ELSE LET src == dict_get(ev, "source", JNull)
         IN IF ~(Truthy(src) /\ src.t = "obj")
            THEN [exc |-> FALSE, errors |-> <<>>]
            ELSE LET o == dict_get(src, "original", JNull)
                     orig == IF o.t = "obj" THEN o ELSE JNull
                     chain == IF Truthy(orig)
                              THEN dict_get(orig, "umid_chain", EmptyArr)
                              ELSE EmptyArr
                     acc[i \in 0..(IF chain.t = "arr" THEN Len(chain.a) ELSE 0)] ==
                         IF i = 0 THEN <<>>
                         ELSE IF UmidEntryInvalid(chain.a[i])
                              THEN Append(acc[i - 1],
                                     ValidationErrorReport(INVALID_UMID_CHAIN,
                                                           UmidPath(ei, i - 1),
                                                           DocIdentifiers))
                              ELSE acc[i - 1]
                 IN [exc |-> FALSE,
                     errors |-> acc[IF chain.t = "arr" THEN Len(chain.a) ELSE 0]]

\* The UMID loop stands outside the try block: an exception leaves
\* _run_additional_validations.
UmidChainBlock(d) ==
    LET evs == EventsOf(d)
        acc[i \in 0..Len(evs.items)] ==
            IF i = 0 THEN [exc |-> ~evs.ok, errors |-> <<>>]
            ELSE IF acc[i - 1].exc THEN acc[i - 1]
            ELSE LET r == EventUmidErrors(i - 1, evs.items[i])
                 IN [exc |-> r.exc, errors |-> acc[i - 1].errors \o r.errors]
    IN acc[Len(evs.items)]

run_additional_validations(d) ==
    LET umid == UmidChainBlock(d)
    IN [raised |-> umid.exc, errors |-> KeyframeOrderBlock(d) \o umid.errors]

(***************************************************************************)
(* validate_canonical_json: a report, or the exception that left it.       *)
(***************************************************************************)
NoReport == [ok |-> FALSE, errors |-> <<>>,
             summary |-> [checked |-> 0, failed |-> 0, reason_codes |-> <<>>]]

Returned(report) == [kind |-> "report", report |-> report]
Raised == [kind |-> "raise", report |-> NoReport]
NotCalled == [kind |-> "none", report |-> NoReport]

\* checked: one for every schema error, and len(extra)
CheckedSchemaOnly(found, extra) == Len(found)
CheckedCount(found, extra) == Len(found) + Len(extra)

validate_canonical_json(d) ==
    LET found == iter_errors(get_canonical_json_schema, d, <<>>)
        mapped == [i \in 1..Len(found) |->
                      map_validation_error_to_reason_code(found[i])]
        extra == run_additional_validations(d)
        errors == mapped \o extra.errors
        checked == CheckedCount(found, extra.errors)
    IN IF extra.raised THEN Raised
       ELSE Returned([ok |-> Len(errors) = 0,
                      errors |-> errors,
                      summary |-> [checked |-> checked,
                                   failed |-> Len(errors),
                                   reason_codes |->
                                       [i \in 1..Len(errors) |-> errors[i].code]]])

(***************************************************************************)
(* load_and_validate_json_file and main (the validate command).            *)
(***************************************************************************)
FileErrorReport(code) ==
    [ok |-> FALSE,
     errors |-> <<ValidationErrorReport(code, <<>>, DocDataModel)>>,
     summary |-> [checked |-> 0, failed |-> 1, reason_codes |-> <<code>>]]

\* f is what the path holds: "missing" (open raises FileNotFoundError),
\* "unparseable" (text that json.load rejects with json.JSONDecodeError),
\* "undecodable" (bytes that are no UTF-8: f.read() under encoding="utf-8"
\* raises UnicodeDecodeError, which neither except clause catches) or "json"
\* (json.load returns d).
FileKinds == {"missing", "unparseable", "undecodable", "json"}

load_and_validate_json_file(f, d) ==
    IF f = "missing" THEN Returned(FileErrorReport(CANON_FILE_ERROR))
    ELSE IF f = "unparseable" THEN Returned(FileErrorReport(CANON_PARSE_ERROR))
    ELSE IF f = "undecodable" THEN Raised
    ELSE validate_canonical_json(d)

\* c.code.startswith("CANON-PARSE") or c.code.startswith("CANON-FILE")
IsFileOrParseCode(code) == code \in {CANON_PARSE_ERROR, CANON_FILE_ERROR}

\* The value main returns for a report.
ExitCode(report) ==
    IF report.ok THEN 0
    ELSE IF \E i \in 1..Len(report.errors) :
                IsFileOrParseCode(report.errors[i].code)
    THEN 2
    ELSE 1

\* An exception that leaves main ends the interpreter with status 1.
UncaughtExceptionStatus == 1

(***************************************************************************)
(* The documents the validator is run on.                                  *)
(***************************************************************************)
MaxEvents == 2      \* events of a document
MaxKeyframes == 2   \* keyframes of a parameter
MaxChain == 2       \* entries of a umid_chain
MaxIdBody == 4      \* characters after "ev_" in an event id

\* All sequences over S of length at most n.
SeqsUpTo(S, n) == UNION {[1..m -> S] : m \in 0..n}

S_MyTimeline == <<"M", "y", "T", "i", "m", "e", "l", "i", "n", "e">>
S_Exported == S_MyTimeline \o <<".", "E", "x", "p", "o", "r", "t", "e", "d", ".", "0", "1">>
S_NDF == <<"N", "D", "F">>
S_ClipPath == <<"f", "i", "l", "e", ":", "/", "/", "/", "V", "o", "l", "u", "m", "e", "s",
                "/", "M", "e", "d", "i", "a", "/", "c", "l", "i", "p", "0", "1", ".",
                "m", "o", "v">>
S_UmidA == <<"{", "U", "M", "I", "D", "-", "A", "}">>
S_UmidB == <<"{", "U", "M", "I", "D", "-", "B", "}">>
S_Disk == <<"D", "I", "S", "K", "0", "1">>
S_None == <<"(", "n", "o", "n", "e", ")">>
S_Image == <<"i", "m", "a", "g", "e">>
S_GoodId == <<"e", "v", "_", "0", "0", "0", "1">>

\* d without key k; d with d[k] = v
Without(d, k) == JObj(SelectSeq(d.kv, LAMBDA kv : kv[1] # k))
With(d, k, v) ==
    IF HasKey(d, k)
    THEN JObj([i \in 1..Len(d.kv) |->
                 IF d.kv[i][1] = k THEN <<k, v>> ELSE d.kv[i]])
    ELSE JObj(Append(d.kv, <<k, v>>))

Project ==
    JObj(<< <<"name", JStr(S_MyTimeline)>>,
            <<"edit_rate_fps", JNum(25)>>,
            <<"tc_format", JStr(S_NDF)>> >>)

Timeline(events) ==
    JObj(<< <<"name", JStr(S_Exported)>>,
            <<"start_tc_frames", JNum(3600)>>,
            <<"events", events>> >>)

Document(events) ==
    JObj(<< <<"project", Project>>, <<"timeline", Timeline(JArr(events))>> >>)

\* The seven source fields, with the given umid_chain.
SourceFields(chain) ==
    JObj(<< <<"path", JStr(S_ClipPath)>>,
            <<"umid_chain", JArr(chain)>>,
            <<"tape_id", JNull>>,
            <<"disk_label", JStr(S_Disk)>>,
            <<"src_tc_start_frames", JNum(90000)>>,
            <<"src_rate_fps", JNum(25)>>,
            <<"src_drop", JBool(FALSE)>> >>)

\* The source of docs/data_model_json.md's minimal example (the fields
\* directly in source), and the source of the schema (under source.original).
FlatSource(chain) == SourceFields(chain)
NestedSource(chain) == JObj(<< <<"original", SourceFields(chain)>> >>)

Effect(keyframes, external_refs) ==
    JObj(<< <<"name", JStr(S_None)>>,
            <<"on_filler", JBool(FALSE)>>,
            <<"parameters", EmptyObj>>,
            <<"keyframes", JObj(keyframes)>>,
            <<"external_refs", JArr(external_refs)>> >>)

Event(id, start, length, source, effect) ==
    JObj(<< <<"id", JStr(id)>>,
            <<"timeline_start_frames", start>>,
            <<"length_frames", length>>,
            <<"source", source>>,
            <<"effect", effect>> >>)

\* create_minimal_valid_example()
create_minimal_valid_example ==
    Document(<<Event(S_GoodId, JNum(0), JNum(100),
                     FlatSource(<<JStr(S_UmidA), JStr(S_UmidB)>>),
                     Effect(<<>>, <<>>))>>)

\* Entries of a keyframe list, by tag: t = 0, 1/2 or 1, or no "t" key.
KeyframeTags == {"t0", "th", "t1", "not"}
Keyframe(tag) ==
    CASE tag = "t0" -> JObj(<< <<"t", JNum(0)>>, <<"v", JNum(1)>> >>)
      [] tag = "th" -> JObj(<< <<"t", JHalf(0)>>, <<"v", JNum(1)>> >>)
      [] tag = "t1" -> JObj(<< <<"t", JNum(1)>>, <<"v", JStr(S_Disk)>> >>)
      [] tag = "not" -> JObj(<< <<"v", JNum(1)>> >>)
KeyframeList(tags) == JArr([i \in 1..Len(tags) |-> Keyframe(tags[i])])

\* Entries of a umid_chain, by tag.
UmidTags == {"good", "empty", "blank", "num"}
UmidEntry(tag) ==
    CASE tag = "good" -> JStr(S_UmidA)
      [] tag = "empty" -> JStr(<<>>)
      [] tag = "blank" -> JStr(<<" ", "\t">>)
      [] tag = "num" -> JNum(7)
UmidChain(tags) == [i \in 1..Len(tags) |-> UmidEntry(tags[i])]

\* Event ids: "ev_" and a body over {"0", "a"}, and a good id with a
\* character before it or after it.
EventIds ==
    {S_GoodId \o <<"\n">>, S_GoodId \o <<"0">>, <<"x">> \o S_GoodId}
    \cup {<<"e", "v", "_">> \o b : b \in SeqsUpTo({"0", "a"}, MaxIdBody)}

\* One event of a document is drawn from these variants; each varies one
\* part of a well-formed event.
Variant(fam, id, p, q, src, chain, omit) ==
    [fam |-> fam, id |-> id, p |-> p, q |-> q, src |-> src, chain |-> chain,
     omit |-> omit]

RequiredKeys ==
    [event |-> {"id", "timeline_start_frames", "length_frames", "source", "effect"},
     source |-> {"path", "umid_chain", "tape_id", "disk_label",
                 "src_tc_start_frames", "src_rate_fps", "src_drop"},
     effect |-> {"name", "on_filler", "parameters", "keyframes", "external_refs"},
     keyframe |-> {"t", "v"},
     external_ref |-> {"kind", "path"}]

Variants ==
    {Variant("id", id, <<>>, "absent", src, <<"good">>, "") :
        id \in EventIds, src \in {"nested", "flat", "null"}}
    \cup {Variant("keyframes", S_GoodId, p, q, src, <<"good">>, "") :
            p \in SeqsUpTo(KeyframeTags, MaxKeyframes),
            q \in {"absent", "ordered", "unordered"},
            src \in {"nested", "flat", "null"}}
    \cup {Variant("source", S_GoodId, <<>>, "absent", src, chain, "") :
            src \in {"nested", "flat"}, chain \in SeqsUpTo(UmidTags, MaxChain)}
    \cup {Variant("source", S_GoodId, <<>>, "absent", src, <<>>, "") :
            src \in {"null", "string", "number", "array", "emptyoriginal"}}
    \cup {Variant("omit", S_GoodId, <<>>, "absent", "nested", <<"good">>, k) :
            k \in RequiredKeys.event}
    \cup {Variant("omit_source", S_GoodId, <<>>, "absent", src, <<"good">>, k) :
            src \in {"nested", "flat"}, k \in RequiredKeys.source}
    \cup {Variant("omit_effect", S_GoodId, <<>>, "absent", "nested", <<"good">>, k) :
            k \in RequiredKeys.effect}
    \cup {Variant("omit_keyframe", S_GoodId, <<>>, "absent", "nested", <<"good">>, k) :
            k \in RequiredKeys.keyframe}
    \cup {Variant("omit_external_ref", S_GoodId, <<>>, "absent", "nested", <<"good">>, k) :
            k \in RequiredKeys.external_ref}
    \cup {Variant("numbers", S_GoodId, <<>>, "absent", "nested", <<"good">>, k) :
            k \in {"negative_start", "zero_length", "half_length", "negative_t"}}
    \cup {Variant("notobject", S_GoodId, <<>>, "absent", "null", <<>>, k) :
            k \in {"string", "null", "array"}}

VariantSource(v) ==
    LET fields == IF v.fam = "omit_source"
                  THEN Without(SourceFields(UmidChain(v.chain)), v.omit)
                  ELSE SourceFields(UmidChain(v.chain))
    IN CASE v.src = "nested" -> JObj(<< <<"original", fields>> >>)
         [] v.src = "flat" -> fields
         [] v.src = "null" -> JNull
         [] v.src = "string" -> JStr(S_ClipPath)
         [] v.src = "number" -> JNum(1)
         [] v.src = "array" -> JArr(<<JStr(S_UmidA)>>)
         [] v.src = "emptyoriginal" -> JObj(<< <<"original", EmptyObj>> >>)

VariantKeyframes(v) ==
    (IF v.fam = "keyframes" THEN << <<"p", KeyframeList(v.p)>> >>
     ELSE IF v.fam = "omit_keyframe"
     THEN << <<"p", JArr(<<Without(Keyframe("t0"), v.omit)>>)>> >>
     ELSE IF v.fam = "numbers" /\ v.omit = "negative_t"
     THEN << <<"p", JArr(<<JObj(<< <<"t", JNum(-1)>>, <<"v", JNum(1)>> >>)>>)>> >>
     ELSE <<>>)
    \o (CASE v.q = "absent" -> <<>>
          [] v.q = "ordered" -> << <<"q", KeyframeList(<<"t0", "t0", "t1">>)>> >>
          [] v.q = "unordered" -> << <<"q", KeyframeList(<<"t1", "t0">>)>> >>)

VariantExternalRefs(v) ==
    IF v.fam = "omit_external_ref"
    THEN <<Without(JObj(<< <<"kind", JStr(S_Image)>>,
                           <<"path", JStr(S_ClipPath)>> >>), v.omit)>>
    ELSE <<>>

VariantEvent(v) ==
    LET effect == Effect(VariantKeyframes(v), VariantExternalRefs(v))
        start == IF v.fam = "numbers" /\ v.omit = "negative_start"
                 THEN JNum(-1) ELSE JNum(0)
        length == IF v.fam = "numbers" /\ v.omit = "zero_length" THEN JNum(0)
                  ELSE IF v.fam = "numbers" /\ v.omit = "half_length"
                  THEN JHalf(1) ELSE JNum(100)
        ev == Event(v.id, start, length, VariantSource(v),
                    IF v.fam = "omit_effect" THEN Without(effect, v.omit)
                    ELSE effect)
    IN CASE v.fam = "omit" -> Without(ev, v.omit)
         [] v.fam = "notobject" ->
              (CASE v.omit = "string" -> JStr(S_GoodId)
                 [] v.omit = "null" -> JNull
                 [] v.omit = "array" -> JArr(<<ev>>))
         [] OTHER -> ev

\* The other events of the document, by tag.
OtherTags == {"valid", "flat", "notobject", "defects"}
OtherEvent(tag) ==
    CASE tag = "valid" ->
           Event(S_GoodId, JNum(0), JNum(100), NestedSource(<<JStr(S_UmidA)>>),
                 Effect(<< <<"p", KeyframeList(<<"t0", "t1">>)>> >>, <<>>))
      [] tag = "flat" ->
           Event(S_GoodId, JNum(0), JNum(100), FlatSource(<<JStr(S_UmidA)>>),
                 Effect(<<>>, <<>>))
      [] tag = "notobject" -> JStr(S_GoodId)
      [] tag = "defects" ->
           Event(S_GoodId, JNum(0), JNum(100), NestedSource(<<JStr(<<>>)>>),
                 Effect(<< <<"p", KeyframeList(<<"t1", "t0">>)>> >>, <<>>))

\* Documents that are malformed, or well-formed, above the events.
TopTags ==
    {"minimal_example", "no_events", "top_array", "top_string", "top_null",
     "top_empty", "extra_key", "no_project", "no_timeline",
     "project_string", "project_no_name", "project_no_rate", "project_no_tc",
     "project_tc_bad", "project_tc_number", "project_rate_zero",
     "timeline_string", "timeline_null", "timeline_array",
     "timeline_no_name", "timeline_no_start", "timeline_no_events",
     "timeline_start_negative",
     "events_null", "events_string", "events_object", "events_empty_object"}

TopDocument(tag) ==
    LET base == Document(<<>>)
        project(p) == With(base, "project", p)
        timeline(tl) == With(base, "timeline", tl)
    IN CASE tag = "minimal_example" -> create_minimal_valid_example
         [] tag = "no_events" -> base
         [] tag = "top_array" -> JArr(<<base>>)
         [] tag = "top_string" -> JStr(S_MyTimeline)
         [] tag = "top_null" -> JNull
         [] tag = "top_empty" -> EmptyObj
         [] tag = "extra_key" -> With(base, "extra", JNull)
         [] tag = "no_project" -> Without(base, "project")
         [] tag = "no_timeline" -> Without(base, "timeline")
         [] tag = "project_string" -> project(JStr(S_MyTimeline))
         [] tag = "project_no_name" -> project(Without(Project, "name"))
         [] tag = "project_no_rate" -> project(Without(Project, "edit_rate_fps"))
         [] tag = "project_no_tc" -> project(Without(Project, "tc_format"))
         [] tag = "project_tc_bad" ->
              project(With(Project, "tc_format", JStr(S_Disk)))
         [] tag = "project_tc_number" ->
              project(With(Project, "tc_format", JNum(0)))
         [] tag = "project_rate_zero" ->
              project(With(Project, "edit_rate_fps", JNum(0)))
         [] tag = "timeline_string" -> timeline(JStr(S_Exported))
         [] tag = "timeline_null" -> timeline(JNull)
         [] tag = "timeline_array" -> timeline(EmptyArr)
         [] tag = "timeline_no_name" -> timeline(Without(Timeline(EmptyArr), "name"))
         [] tag = "timeline_no_start" ->
              timeline(Without(Timeline(EmptyArr), "start_tc_frames"))
         [] tag = "timeline_no_events" ->
              timeline(Without(Timeline(EmptyArr), "events"))
         [] tag = "timeline_start_negative" ->
              timeline(With(Timeline(EmptyArr), "start_tc_frames", JNum(-1)))
         [] tag = "events_null" -> timeline(Timeline(JNull))
         [] tag = "events_string" -> timeline(Timeline(JStr(S_GoodId)))
         [] tag = "events_object" ->
              timeline(Timeline(JObj(<< <<"0", OtherEvent("valid")>> >>)))
         [] tag = "events_empty_object" -> timeline(Timeline(EmptyObj))

\* data is one of the documents drawn.
DrawDocument ==
    \/ \E tag \in TopTags : data = TopDocument(tag)
    \/ \E n \in 1..MaxEvents : \E k \in 1..n : \E v \in Variants :
         \E others \in [1..n -> OtherTags] :
            /\ others[k] = "valid"
            /\ data = Document([i \in 1..n |->
                                  IF i = k THEN VariantEvent(v)
                                  ELSE OtherEvent(others[i])])

(***************************************************************************)
(* Spec: validate_canonical_json applied to a document.                    *)
(***************************************************************************)
\* No build takes part in a run of the validator.
NothingBuilt ==
    /\ slots = <<>>
    /\ clips = <<>>
    /\ processed_ranges = {}
    /\ log = <<>>
    /\ end_offset = 0

\* No source resolution and no timeline selection takes part in the run.
NothingResolved ==
    /\ mobs = <<>>
    /\ clip_ref = ""
    /\ mob_id = ""
    /\ visited = {}
    /\ src_info = <<>>

NothingSelected ==
    /\ content = <<>>
    /\ selected = 0
    /\ canon = <<>>

\* No write to the memory store takes part in the run.
NothingStored ==
    /\ tmp_file = [exists |-> FALSE, lines |-> <<>>]
    /\ jsonl = <<>>
    /\ writers = <<>>

Init ==
    /\ pc = "start"
    /\ file = "json"
    /\ DrawDocument
    /\ outcome = NotCalled
    /\ exit_code = -1
    /\ report_out = "none"
    /\ NothingStored
    /\ NothingBuilt
    /\ NothingResolved
    /\ NothingSelected

ValidateCanonicalJson ==
    /\ pc = "start"
    /\ outcome' = validate_canonical_json(data)
    /\ pc' = "done"
    /\ UNCHANGED <<file, data, exit_code, report_out>>
    /\ UNCHANGED <<slots, clips, processed_ranges, log, end_offset>>
    /\ UNCHANGED <<resolver, selection>>
    /\ UNCHANGED store

Next == ValidateCanonicalJson

Spec == Init /\ [][Next]_vars

(***************************************************************************)
(* SpecCli: the validate command run on a path.                            *)
(***************************************************************************)
InitCli ==
    /\ pc = "start"
    /\ \/ file = "json" /\ DrawDocument
       \/ file \in FileKinds \ {"json"} /\ data = JNull
    /\ outcome = NotCalled
    /\ exit_code = -1
    /\ report_out = "none"
    /\ NothingStored
    /\ NothingBuilt
    /\ NothingResolved
    /\ NothingSelected

\* main(): --report is given or not and --quiet is set or not (--verbose
\* adds lines on stderr only).  An exception that leaves
\* load_and_validate_json_file leaves main before anything is written.
Main ==
    /\ pc = "start"
    /\ outcome' = load_and_validate_json_file(file, data)
    /\ \E report_given \in BOOLEAN, quiet \in BOOLEAN :
          IF outcome'.kind = "raise"
          THEN /\ exit_code' = UncaughtExceptionStatus
               /\ report_out' = "none"
          ELSE /\ exit_code' = ExitCode(outcome'.report)
               /\ report_out' = IF quiet THEN "none"
                                ELSE IF report_given THEN "file"
                                ELSE "stdout"
    /\ pc' = "done"
    /\ UNCHANGED <<file, data>>
    /\ UNCHANGED <<slots, clips, processed_ranges, log, end_offset>>
    /\ UNCHANGED <<resolver, selection>>
    /\ UNCHANGED store

NextCli == Main

SpecCli == InitCli /\ [][NextCli]_vars

(***************************************************************************)
(* build_canonical.py: the segment walker.  A segment is a record          *)
(*   [cls, has, length, name, source_id, operation_def, attrs]             *)
(* cls is type(segment).__name__; has is the set of the attributes length, *)
(* name, source_id and operation_def that the object has (the field of an  *)
(* attribute it does not have is not read); attrs lists the child          *)
(* containers the object has, as <<attribute name, children>>.             *)
(***************************************************************************)
Segment(cls, has, length, name, source_id, operation_def, attrs) ==
    [cls |-> cls, has |-> has, length |-> length, name |-> name,
     source_id |-> source_id, operation_def |-> operation_def, attrs |-> attrs]

\* hasattr(segment, attr) and getattr(segment, attr)
HasAttr(segment, attr) ==
    \E i \in 1..Len(segment.attrs) : segment.attrs[i][1] = attr
GetAttr(segment, attr) ==
    segment.attrs[CHOOSE i \in 1..Len(segment.attrs) : segment.attrs[i][1] = attr][2]

\* "Sequence" in segment_type, and so on: no class name of the segments
\* drawn contains the name of another class.
TypeNameContains(cls, word) == cls = word

\* int(getattr(segment, "length", 0))
LengthOf(segment) == IF "length" \in segment.has THEN segment.length ELSE 0

\* The mob map of the build: the mob of source id "umid:A" has a descriptor
\* with a locator, the mob of "umid:B" has no descriptor, "umid:C" has no mob.
mob_map ==
    [id \in {"umid:A", "umid:B"} |->
        IF id = "umid:A"
        THEN [has_descriptor |-> TRUE,
              descriptor |-> [has_locator |-> TRUE,
                              locator |-> [url_string |-> "file:///Volumes/Media/a.mov"]]]
        ELSE [has_descriptor |-> FALSE,
              descriptor |-> [has_locator |-> FALSE,
                              locator |-> [url_string |-> ""]]]]

PyNone == "<None>"

\* resolve_source_path with the mob map table: the mob of the clip's
\* source_id is looked up and its own descriptor read; no further mob is.
resolve_source_path_in(source_clip, table) ==
    IF "source_id" \notin source_clip.has THEN PyNone
    ELSE IF source_clip.source_id \notin DOMAIN table THEN PyNone
    ELSE LET current_mob == table[source_clip.source_id]
         IN IF ~current_mob.has_descriptor THEN PyNone
            ELSE IF ~current_mob.descriptor.has_locator THEN PyNone
            ELSE current_mob.descriptor.locator.url_string

resolve_source_path(source_clip) == resolve_source_path_in(source_clip, mob_map)

\* str(getattr(segment, "name", "Media"))
ClipName(segment) == IF "name" \in segment.has THEN segment.name ELSE "Media"

\* str(source_id) if source_id else ""
SourceUmid(segment) == IF "source_id" \in segment.has THEN segment.source_id ELSE ""

\* s[-n:]
LastChars(s, n) == IF Len(s) <= n THEN s ELSE SubSeq(s, Len(s) - n + 1, Len(s))

\* The operation name of an OperationGroup, as the pieces of the string.
OperationName(segment) ==
    LET operation_def == segment.operation_def
    IN IF "operation_def" \notin segment.has THEN <<"Unknown Effect">>
       ELSE IF operation_def.has_name
       THEN (IF operation_def.name # "" THEN <<operation_def.name>>
             ELSE <<"Unknown Effect">>)
       ELSE IF operation_def.has_auid
       THEN <<"Effect_">> \o LastChars(operation_def.auid, 8)
       ELSE <<"Unknown Effect">>

\* The input segments of an OperationGroup: [has, items].
InputSegments(segment) ==
    IF HasAttr(segment, "input_segments")
    THEN [has |-> TRUE, items |-> GetAttr(segment, "input_segments")]
    ELSE IF HasAttr(segment, "segments")
    THEN [has |-> TRUE, items |-> GetAttr(segment, "segments")]
    ELSE IF HasAttr(segment, "inputs")
    THEN [has |-> TRUE, items |-> GetAttr(segment, "inputs")]
    ELSE [has |-> FALSE, items |-> <<>>]

NotFound == [found |-> FALSE, name |-> "", source_umid |-> "", source_path |-> PyNone]

RECURSIVE find_source_clip_recursive(_)
RECURSIVE find_source_clip_in(_)
\* the first result in a list of segments
find_source_clip_in(segments) ==
    IF Len(segments) = 0 THEN NotFound
    ELSE LET result == find_source_clip_recursive(Head(segments))
         IN IF result.found THEN result ELSE find_source_clip_in(Tail(segments))

find_source_clip_recursive(segment) ==
    IF TypeNameContains(segment.cls, "SourceClip")
    THEN [found |-> TRUE, name |-> ClipName(segment),
          source_umid |-> SourceUmid(segment),
          source_path |-> resolve_source_path(segment)]
    ELSE IF TypeNameContains(segment.cls, "Sequence")
    THEN (IF HasAttr(segment, "components")
          THEN find_source_clip_in(GetAttr(segment, "components"))
          ELSE NotFound)
    ELSE NotFound

NoParams == <<>>

\* The event of an OperationGroup at timeline_offset.
OperationGroupEvent(segment, timeline_offset) ==
    LET op_length == LengthOf(segment)
        operation_name == OperationName(segment)
        input_segments == InputSegments(segment)
        input_count == Len(input_segments.items)
        source_clip_info == find_source_clip_in(input_segments.items)
    IN IF source_clip_info.found
       THEN [name |-> <<source_clip_info.name, " + ">> \o operation_name,
             in |-> timeline_offset,
             out |-> timeline_offset + op_length,
             source_umid |-> source_clip_info.source_umid,
             source_path |-> source_clip_info.source_path,
             effect_params |-> [operation |-> operation_name,
                                has_media |-> TRUE,
                                input_count |-> input_count,
                                length |-> op_length]]
       ELSE [name |-> operation_name,
             in |-> timeline_offset,
             out |-> timeline_offset + op_length,
             source_umid |-> "",
             source_path |-> PyNone,
             effect_params |-> [operation |-> operation_name,
                                has_media |-> FALSE,
                                input_count |-> input_count,
                                length |-> op_length]]

\* The event of a standalone SourceClip at timeline_offset.
SourceClipEvent(segment, timeline_offset) ==
    [name |-> <<ClipName(segment)>>,
     in |-> timeline_offset,
     out |-> timeline_offset + LengthOf(segment),
     source_umid |-> SourceUmid(segment),
     source_path |-> resolve_source_path(segment),
     effect_params |-> NoParams]

\* The nested segments an unknown segment type is explored through: the
\* first of the four attributes that the object has, whatever it holds.
UnknownNested(segment) ==
    LET names == <<"segments", "components", "inputs", "input_segments">>
        had == {i \in 1..Len(names) : HasAttr(segment, names[i])}
    IN IF had = {} THEN <<>>
       ELSE GetAttr(segment, names[CHOOSE i \in had : \A j \in had : i <= j])

\* op_range in processed_ranges, clip_range in processed_ranges
RangeNeverProcessed(range, ranges) == FALSE
RangeProcessed(range, ranges) == range \in ranges

\* The offset returned for a Filler, ScopeReference, Transition or Timecode:
\* a Timecode does not advance the offset, the others advance it by their
\* length.
OffsetNeverAdvanced(cls, timeline_offset, length) == timeline_offset
OffsetAfterSkipped(cls, timeline_offset, length) ==
    IF TypeNameContains(cls, "Timecode") THEN timeline_offset
    ELSE timeline_offset + length

\* The offset returned for an OperationGroup or a SourceClip, emitted or
\* skipped: the offset advanced by the length.
OffsetHeld(timeline_offset, length) == timeline_offset
OffsetAfterEvent(timeline_offset, length) == timeline_offset + length

\* w = [clips, processed_ranges, log]: the list and the set that the calls
\* share, and the records of logger.debug("Processing segment type ...").
RECURSIVE extract_clips_recursive(_, _, _)
RECURSIVE extract_each(_, _, _)
\* for s in segments: current_offset = _extract_clips_recursive(s, ...)
extract_each(segments, w, current_offset) ==
    IF Len(segments) = 0 THEN [w |-> w, offset |-> current_offset]
    ELSE LET r == extract_clips_recursive(Head(segments), w, current_offset)
         IN extract_each(Tail(segments), r.w, r.offset)

extract_clips_recursive(segment, w0, timeline_offset) ==
    LET w == [w0 EXCEPT !.log = Append(@, <<segment.cls, timeline_offset>>)]
        length == LengthOf(segment)
        range == <<timeline_offset, timeline_offset + length>>
    IN IF TypeNameContains(segment.cls, "Sequence")
       THEN extract_each(GetAttr(segment, "components"), w, timeline_offset)
       ELSE IF TypeNameContains(segment.cls, "OperationGroup")
       THEN (IF RangeProcessed(range, w.processed_ranges)
             THEN [w |-> w, offset |-> OffsetAfterEvent(timeline_offset, length)]
             ELSE [w |-> [w EXCEPT
                            !.processed_ranges = @ \cup {range},
                            !.clips = Append(@, OperationGroupEvent(segment,
                                                   timeline_offset))],
                   offset |-> OffsetAfterEvent(timeline_offset, length)])
       ELSE IF TypeNameContains(segment.cls, "SourceClip")
       THEN (IF RangeProcessed(range, w.processed_ranges)
             THEN [w |-> w, offset |-> OffsetAfterEvent(timeline_offset, length)]
             ELSE [w |-> [w EXCEPT
                            !.processed_ranges = @ \cup {range},
                            !.clips = Append(@, SourceClipEvent(segment,
                                                   timeline_offset))],
                   offset |-> OffsetAfterEvent(timeline_offset, length)])
       ELSE IF \/ TypeNameContains(segment.cls, "Filler")
               \/ TypeNameContains(segment.cls, "ScopeReference")
               \/ TypeNameContains(segment.cls, "Transition")
               \/ TypeNameContains(segment.cls, "Timecode")
       THEN [w |-> w, offset |-> OffsetAfterSkipped(segment.cls, timeline_offset, length)]
       ELSE (IF Len(UnknownNested(segment)) > 0
             THEN extract_each(UnknownNested(segment), w, timeline_offset)
             ELSE [w |-> w, offset |-> timeline_offset + length])

NoWalk == [clips |-> <<>>, processed_ranges |-> {}, log |-> <<>>]

\* The slot extract_clips_from_comp_mob walks: the first slot whose segment
\* is a Sequence, else the first slot whose segment is no Timecode; 0 if
\* there is none.  comp_slots holds the segments of the slots.
PictureSlot(comp_slots) ==
    LET sequences == {i \in 1..Len(comp_slots) :
                        TypeNameContains(comp_slots[i].cls, "Sequence")}
        others == {i \in 1..Len(comp_slots) :
                        ~TypeNameContains(comp_slots[i].cls, "Timecode")}
        first(S) == CHOOSE i \in S : \A j \in S : i <= j
    IN IF sequences # {} THEN first(sequences)
       ELSE IF others # {} THEN first(others)
       ELSE 0

extract_clips_from_comp_mob(comp_slots) ==
    IF PictureSlot(comp_slots) = 0 THEN [w |-> NoWalk, offset |-> 0]
    ELSE extract_clips_recursive(comp_slots[PictureSlot(comp_slots)], NoWalk, 0)

(***************************************************************************)
(* parse_aaf.py: parse_sequence.  p = [event_list, timeline_start_frames]. *)
(* Of an event the id, type, operation, start, duration, source and        *)
(* on_filler are kept; the segments drawn carry no parameters, and the     *)
(* sources table and the effect entries built from parameters are not part *)
(* of the model.                                                           *)
(***************************************************************************)
\* str(n) for n >= 0, as characters
RECURSIVE DecimalDigits(_)
DecimalDigits(n) ==
    LET d == <<"0", "1", "2", "3", "4", "5", "6", "7", "8", "9">>[(n % 10) + 1]
    IN IF n < 10 THEN <<d>> ELSE Append(DecimalDigits(n \div 10), d)

\* f"ev{len(event_list)+1}"
ParsedEventId(event_list) == <<"e", "v">> \o DecimalDigits(Len(event_list) + 1)

\* str(getattr(component, "source_id", None))
ParsedSourceId(component) ==
    IF "source_id" \in component.has THEN component.source_id ELSE "None"

\* all(inp.class_name == "Filler" for inp in input_segments), or None
ParsedOnFiller(component) ==
    IF HasAttr(component, "input_segments")
    THEN (IF \A i \in 1..Len(GetAttr(component, "input_segments")) :
                GetAttr(component, "input_segments")[i].cls = "Filler"
          THEN "True" ELSE "False")
    ELSE PyNone

\* extract_effect_name(op): the value of the first attribute named
\* _EFFECT_PLUGIN_NAME or _CLASS, else the name of the operation definition,
\* else None.  An OperationGroup with "attributes" in has carries the field
\* attributes, a list of <<Name, Value>>.
extract_effect_name(op) ==
    LET tags == IF "attributes" \in op.has THEN op.attributes ELSE <<>>
        named == {i \in 1..Len(tags) : tags[i][1] \in {"_EFFECT_PLUGIN_NAME", "_CLASS"}}
    IN IF named # {} THEN tags[CHOOSE i \in named : \A k \in named : i <= k][2]
       ELSE IF "operation_def" \in op.has /\ op.operation_def.has_name
       THEN op.operation_def.name
       ELSE PyNone

ParsedEvent(component, p) ==
    [id |-> ParsedEventId(p.event_list),
     type |-> component.cls,
     operation |-> IF component.cls = "OperationGroup"
                   THEN extract_effect_name(component) ELSE PyNone,
     start |-> p.timeline_start_frames,
     duration |-> LengthOf(component),
     source |-> IF component.cls = "SourceClip" THEN ParsedSourceId(component)
                ELSE PyNone,
     on_filler |-> IF component.cls = "OperationGroup"
                   THEN ParsedOnFiller(component) ELSE PyNone]

RECURSIVE parse_sequence(_, _)
RECURSIVE parse_components(_, _)
parse_components(components, p) ==
    IF Len(components) = 0 THEN p
    ELSE LET component == Head(components)
             next ==
                 IF component.cls = "Sequence" THEN parse_sequence(component, p)
                 ELSE IF component.cls \in {"SourceClip", "OperationGroup"}
                 THEN [event_list |-> Append(p.event_list,
                                             ParsedEvent(component, p)),
                       timeline_start_frames |->
                           p.timeline_start_frames + LengthOf(component)]
                 ELSE p
         IN parse_components(Tail(components), next)

parse_sequence(sequence, p) == parse_components(GetAttr(sequence, "components"), p)

(***************************************************************************)
(* The segment trees built from.                                           *)
(***************************************************************************)
MaxComponents == 3  \* components of the picture track's Sequence
MaxLength == 1      \* declared length of a segment

Lengths == (-1)..MaxLength

Leaf(cls, length) == Segment(cls, {"length"}, length, "", "", <<>>, <<>>)

SourceClipOf(has, length, source_id) ==
    Segment("SourceClip", has, length, "clip", source_id, <<>>, <<>>)

NamedOperation(name) ==
    [has_name |-> TRUE, name |-> name, has_auid |-> FALSE, auid |-> <<>>]
AuidOperation ==
    [has_name |-> FALSE, name |-> "", has_auid |-> TRUE,
     auid |-> <<"0", "c", "3", "b", "e", "a", "4", "1", "-", "9", "f">>]

OperationGroupOf(has, length, operation_def, attrs) ==
    Segment("OperationGroup", has, length, "", "", operation_def, attrs)

SequenceOf(components) ==
    Segment("Sequence", {"length"}, 0, "", "", <<>>, << <<"components", components>> >>)

MediaClip == SourceClipOf({"length", "name", "source_id"}, 1, "umid:A")
Blur == NamedOperation("Blur")
PlainEffect == OperationGroupOf({"length", "operation_def"}, 1, Blur, <<>>)

\* The components a Sequence is drawn from.
Components ==
    {SourceClipOf({"length", "name", "source_id"}, l, "umid:A") : l \in Lengths}
    \cup {SourceClipOf({"name", "source_id"}, 0, "umid:B"),
          SourceClipOf({"length", "source_id"}, 1, "umid:C"),
          SourceClipOf({"length"}, 1, "")}
    \cup {OperationGroupOf({"length", "operation_def"}, l, Blur, <<>>) : l \in Lengths}
    \cup {OperationGroupOf({"operation_def"}, 0, NamedOperation(""), <<>>),
          OperationGroupOf({"length"}, 1, Blur,
                           << <<"input_segments", <<Leaf("Filler", 1), MediaClip>> >> >>),
          OperationGroupOf({"length", "operation_def"}, 1, AuidOperation,
                           << <<"segments", <<Leaf("Filler", 1)>> >> >>),
          OperationGroupOf({"length", "operation_def"}, 1, Blur,
                           << <<"inputs", <<SequenceOf(<<Leaf("Filler", 1), MediaClip>>)>> >> >>),
          OperationGroupOf({"length", "operation_def"}, 1, Blur,
                           << <<"input_segments", <<PlainEffect,
                                 OperationGroupOf({"length", "operation_def"}, 1, Blur,
                                     << <<"input_segments", <<MediaClip>> >> >>)>> >> >>)}
    \cup {Leaf("Filler", l) : l \in Lengths}
    \cup {Leaf("Transition", 1), Leaf("ScopeReference", 1), Leaf("Timecode", 1),
          Leaf("Selector", 1),
          Segment("EssenceGroup", {"length"}, 1, "", "", <<>>,
                  << <<"components", <<MediaClip, PlainEffect>> >> >>),
          Segment("NestedScope", {"length"}, 1, "", "", <<>>,
                  << <<"segments", <<>> >>, <<"components", <<MediaClip>> >> >>),
          SequenceOf(<<MediaClip, PlainEffect>>),
          SequenceOf(<<>>)}

\* slots holds a picture slot alone, or one of a few compositions with
\* other slots, with no Sequence slot, or with no slot.
DrawSlots ==
    \/ \E cs \in SeqsUpTo(Components, MaxComponents) : slots = <<SequenceOf(cs)>>
    \/ \E c \in Components :
         slots \in {<<Leaf("Timecode", 1), SequenceOf(<<c>>)>>,
                    <<Leaf("Timecode", 1), c>>,
                    <<c, SequenceOf(<<c>>)>>,
                    <<SequenceOf(<<c>>), SequenceOf(<<c, c>>)>>}
    \/ slots = <<>>

(***************************************************************************)
(* SpecBuild: one build of a composition, by build_canonical.py            *)
(* (extract_clips_from_comp_mob) or by parse_aaf.py (parse_sequence on the *)
(* segment of the first slot: no segment of the trees drawn has a data     *)
(* definition, so main falls back to comp.slots[0]; no slot, or a segment  *)
(* with no components, raises).                                            *)
(***************************************************************************)
InitBuild ==
    /\ pc = "start"
    /\ DrawSlots
    /\ clips = <<>>
    /\ processed_ranges = {}
    /\ log = <<>>
    /\ end_offset = 0
    /\ file = "json"
    /\ data = JNull
    /\ outcome = NotCalled
    /\ exit_code = -1
    /\ report_out = "none"
    /\ NothingStored
    /\ NothingResolved
    /\ NothingSelected

ExtractClipsFromCompMob ==
    /\ pc = "start"
    /\ LET r == extract_clips_from_comp_mob(slots)
       IN /\ clips' = r.w.clips
          /\ processed_ranges' = r.w.processed_ranges
          /\ log' = r.w.log
          /\ end_offset' = r.offset
    /\ pc' = "built"
    /\ UNCHANGED <<slots, file, data, outcome, exit_code, report_out>>
    /\ UNCHANGED <<resolver, selection>>
    /\ UNCHANGED store

ParseAaf ==
    /\ pc = "start"
    /\ IF Len(slots) > 0 /\ HasAttr(slots[1], "components")
       THEN LET p == parse_sequence(slots[1],
                                    [event_list |-> <<>>,
                                     timeline_start_frames |-> 0])
            IN /\ clips' = p.event_list
               /\ end_offset' = p.timeline_start_frames
               /\ pc' = "parsed"
       ELSE /\ pc' = "parse_failed"
            /\ UNCHANGED <<clips, end_offset>>
    /\ UNCHANGED <<processed_ranges, log>>
    /\ UNCHANGED <<slots, file, data, outcome, exit_code, report_out>>
    /\ UNCHANGED <<resolver, selection>>
    /\ UNCHANGED store

NextBuild == ExtractClipsFromCompMob \/ ParseAaf

SpecBuild == InitBuild /\ [][NextBuild]_vars

(***************************************************************************)
(* Properties of the validator (Spec) and of its command line (SpecCli).   *)
(***************************************************************************)
ReportFields == {"ok", "errors", "summary"}
SummaryFields == {"checked", "failed", "reason_codes"}

\* The reason codes of the report returned (none if none was returned).
ReportedCodes ==
    IF outcome.kind = "report"
    THEN {outcome.report.errors[i].code : i \in 1..Len(outcome.report.errors)}
    ELSE {}

ReportedAt(code, path) ==
    /\ outcome.kind = "report"
    /\ \E i \in 1..Len(outcome.report.errors) :
          /\ outcome.report.errors[i].code = code
          /\ outcome.report.errors[i].path = path

\* C1: validate_canonical_json never raises: for every input value it
\* returns a report with the fields ok, errors and summary{checked, failed,
\* reason_codes}.
C1_ValidatorNeverRaises ==
    pc = "done" =>
        /\ outcome.kind = "report"
        /\ DOMAIN outcome.report = ReportFields
        /\ DOMAIN outcome.report.summary = SummaryFields

\* C2: the minimal valid document of the data model, whose source carries
\* its seven fields directly, is accepted: ok = true and no errors.
C2_MinimalExampleAccepted ==
    (pc = "done" /\ data = create_minimal_valid_example) =>
        /\ outcome.kind = "report"
        /\ outcome.report.ok
        /\ outcome.report.errors = <<>>

\* An event of the data model: "ev_" and four digits as id, a source that
\* is null or carries the seven fields directly, the "(none)" effect.
IdWellFormed(id) ==
    /\ Len(id) = 7
    /\ SubSeq(id, 1, 3) = <<"e", "v", "_">>
    /\ \A i \in 4..7 : id[i] \in Digit

DataModelSources == {JNull, FlatSource(<<JStr(S_UmidA)>>)}

DataModelEvent(id, source, keyframes) ==
    Event(id, JNum(0), JNum(100), source, Effect(keyframes, <<>>))

\* The document of n events that is valid but for event k, which is ev.
ValidButFor(n, k, ev) ==
    Document([i \in 1..n |->
                IF i = k THEN ev
                ELSE DataModelEvent(S_GoodId, FlatSource(<<JStr(S_UmidA)>>), <<>>)])

IdPath(k) == <<K("timeline"), K("events"), I(k - 1), K("id")>>

\* C3: a document that is valid except that the id of one event is not
\* "ev_" and four digits gets ok = false, the code CANON-REQ-020 for that
\* event, and no error for any other field.
C3_BadEventIdOnly ==
    pc = "done" =>
        \A n \in 1..MaxEvents : \A k \in 1..n :
        \A id \in EventIds : \A source \in DataModelSources :
            (/\ ~IdWellFormed(id)
             /\ data = ValidButFor(n, k, DataModelEvent(id, source, <<>>)))
            => /\ outcome.kind = "report"
               /\ ~outcome.report.ok
               /\ ReportedAt(INVALID_EVENT_ID_FORMAT, IdPath(k))
               /\ \A i \in 1..Len(outcome.report.errors) :
                     outcome.report.errors[i].path = IdPath(k)

\* The events of the document that are objects with an object under key.
EventsWith(key) ==
    IF data.t = "obj" /\ HasKey(data, "timeline")
       /\ Item(data, "timeline").t = "obj"
       /\ HasKey(Item(data, "timeline"), "events")
       /\ Item(Item(data, "timeline"), "events").t = "arr"
    THEN LET events == Item(Item(data, "timeline"), "events").a
         IN {i \in 1..Len(events) :
                /\ events[i].t = "obj"
                /\ HasKey(events[i], key)
                /\ Item(events[i], key).t = "obj"}
    ELSE {}

EventAt(i) == Item(Item(data, "timeline"), "events").a[i]

NonDecreasing(times) ==
    \A i \in 1..(Len(times) - 1) : times[i] <= times[i + 1]

\* The keyframe lists of event i: <<parameter name, list>> pairs.
KeyframeListsOf(i) ==
    LET effect == Item(EventAt(i), "effect")
    IN IF HasKey(effect, "keyframes") /\ Item(effect, "keyframes").t = "obj"
       THEN {Item(effect, "keyframes").kv[j] :
                j \in 1..Len(Item(effect, "keyframes").kv)}
       ELSE {}

\* The documents whose only defect is the order of keyframe times: one
\* event of the data model whose keyframes all carry t.
OrderDefectOnly ==
    \E v \in Variants :
        /\ v.fam = "keyframes"
        /\ v.src \in {"flat", "null"}
        /\ \A i \in 1..Len(v.p) : v.p[i] # "not"
        /\ v.q = "unordered" \/ ~NonDecreasing(KeyframeTimes(KeyframeList(v.p).a))
        /\ data = Document(<<VariantEvent(v)>>)

\* C4: for every event and every parameter of effect.keyframes, CANON-REQ-037
\* is reported for the parameter if and only if its t values are not
\* non-decreasing; a document whose only defect is such an order gets that
\* code and no other.
C4_KeyframeTimeOrder ==
    pc = "done" =>
        /\ \A i \in EventsWith("effect") : \A kf \in KeyframeListsOf(i) :
              kf[2].t = "arr" =>
                 (ReportedAt(KEYFRAME_TIME_ORDER, KeyframePath(i - 1, kf[1]))
                  <=> ~NonDecreasing(KeyframeTimes(kf[2].a)))
        /\ OrderDefectOnly => ReportedCodes = {KEYFRAME_TIME_ORDER}

\* An INVALID_UMID_CHAIN error whose path names event i and array index u
\* (both 1-based here, 0-based in the path).
UmidReported(i, u) ==
    /\ outcome.kind = "report"
    /\ \E j \in 1..Len(outcome.report.errors) :
          LET e == outcome.report.errors[j]
          IN /\ e.code = INVALID_UMID_CHAIN
             /\ e.path[3] = B(i - 1)
             /\ e.path[Len(e.path)] = B(u - 1)

\* source.umid_chain of event i, or the chain under source.original where
\* the source has no umid_chain of its own.
UmidChainOf(i) ==
    LET source == Item(EventAt(i), "source")
        holder == IF HasKey(source, "umid_chain") THEN source
                  ELSE IF HasKey(source, "original")
                          /\ Item(source, "original").t = "obj"
                  THEN Item(source, "original")
                  ELSE EmptyObj
    IN IF HasKey(holder, "umid_chain") /\ Item(holder, "umid_chain").t = "arr"
       THEN Item(holder, "umid_chain").a
       ELSE <<>>

NonEmptyString(u) == u.t = "str" /\ Len(u.s) > 0

\* C5: for every event with a non-null source, an entry of its umid_chain
\* that is no string or is the empty string is reported with CANON-REQ-028
\* at that event index and array index, and an entry that is a non-empty
\* string is not.
C5_UmidChainEntries ==
    pc = "done" =>
        \A i \in EventsWith("source") : \A u \in 1..Len(UmidChainOf(i)) :
            UmidReported(i, u) <=> ~NonEmptyString(UmidChainOf(i)[u])

\* The code ReasonCodes declares for a key missing from a container.
DeclaredCode(container, key) ==
    CASE container = "top" ->
           (IF key = "project" THEN MISSING_PROJECT ELSE MISSING_TIMELINE)
      [] container = "project" ->
           (CASE key = "name" -> MISSING_PROJECT_NAME
              [] key = "edit_rate_fps" -> MISSING_PROJECT_EDIT_RATE
              [] key = "tc_format" -> MISSING_PROJECT_TC_FORMAT)
      [] container = "timeline" ->
           (CASE key = "name" -> MISSING_TIMELINE_NAME
              [] key = "start_tc_frames" -> MISSING_TIMELINE_START_TC
              [] key = "events" -> MISSING_TIMELINE_EVENTS)
      [] container = "event" ->
           (CASE key = "id" -> MISSING_EVENT_ID
              [] key = "timeline_start_frames" -> MISSING_EVENT_TIMELINE_START
              [] key = "length_frames" -> MISSING_EVENT_LENGTH
              [] key = "source" -> MISSING_EVENT_SOURCE
              [] key = "effect" -> MISSING_EVENT_EFFECT)
      [] container = "source" ->
           (CASE key = "path" -> MISSING_SOURCE_PATH
              [] key = "umid_chain" -> MISSING_SOURCE_UMID_CHAIN
              [] key = "tape_id" -> MISSING_SOURCE_TAPE_ID
              [] key = "disk_label" -> MISSING_SOURCE_DISK_LABEL
              [] key = "src_tc_start_frames" -> MISSING_SOURCE_TC_START
              [] key = "src_rate_fps" -> MISSING_SOURCE_RATE_FPS
              [] key = "src_drop" -> MISSING_SOURCE_DROP)
      [] container = "effect" ->
           (CASE key = "name" -> MISSING_EFFECT_NAME
              [] key = "on_filler" -> MISSING_EFFECT_ON_FILLER
              [] key = "parameters" -> MISSING_EFFECT_PARAMETERS
              [] key = "keyframes" -> MISSING_EFFECT_KEYFRAMES
              [] key = "external_refs" -> MISSING_EFFECT_EXTERNAL_REFS)
      [] container = "keyframe" ->
           (IF key = "t" THEN MISSING_KEYFRAME_TIME ELSE MISSING_KEYFRAME_VALUE)
      [] container = "external_ref" ->
           (IF key = "kind" THEN MISSING_EXTREF_KIND ELSE MISSING_EXTREF_PATH)

Containers ==
    RequiredKeys @@
    [top |-> {"project", "timeline"},
     project |-> {"name", "edit_rate_fps", "tc_format"},
     timeline |-> {"name", "start_tc_frames", "events"}]

\* The (container, key) pairs.
Requirements ==
    UNION {{<<c, k>> : k \in Containers[c]} : c \in DOMAIN Containers}

\* A document that is well-formed to the schema but for one missing key.
MissingKeyDocument(container, key) ==
    CASE container = "top" ->
           TopDocument(IF key = "project" THEN "no_project" ELSE "no_timeline")
      [] container = "project" ->
           TopDocument(CASE key = "name" -> "project_no_name"
                         [] key = "edit_rate_fps" -> "project_no_rate"
                         [] key = "tc_format" -> "project_no_tc")
      [] container = "timeline" ->
           TopDocument(CASE key = "name" -> "timeline_no_name"
                         [] key = "start_tc_frames" -> "timeline_no_start"
                         [] key = "events" -> "timeline_no_events")
      [] OTHER ->
           Document(<<VariantEvent(
               Variant(CASE container = "event" -> "omit"
                         [] container = "source" -> "omit_source"
                         [] container = "effect" -> "omit_effect"
                         [] container = "keyframe" -> "omit_keyframe"
                         [] container = "external_ref" -> "omit_external_ref",
                       S_GoodId, <<>>, "absent", "nested", <<"good">>, key))>>)

CodesOf(result) ==
    IF result.kind = "report"
    THEN {result.report.errors[i].code : i \in 1..Len(result.report.errors)}
    ELSE {}

\* C6: one code per (location, requirement) pair: a required key missing
\* from project, timeline, event, source, effect, keyframe or external_ref
\* is reported with the code declared for that container and key, and two
\* different pairs never get the same code.
C6_OneCodePerRequirement ==
    pc = "done" =>
        \A r \in Requirements :
            data = MissingKeyDocument(r[1], r[2]) =>
                /\ DeclaredCode(r[1], r[2]) \in ReportedCodes
                /\ \A r2 \in Requirements \ {r} :
                      ReportedCodes
                      \cap CodesOf(validate_canonical_json(
                                       MissingKeyDocument(r2[1], r2[2]))) = {}

\* C7: the validate command exits with 0 exactly when the report has
\* ok = true, with 2 exactly when the input file is missing or is not
\* parseable JSON, and with 1 in every other case.
C7_ExitCodes ==
    pc = "done" =>
        LET valid == outcome.kind = "report" /\ outcome.report.ok
            unreadable == file # "json"
        IN /\ exit_code \in {0, 1, 2}
           /\ exit_code = 0 <=> valid
           /\ exit_code = 2 <=> unreadable
           /\ exit_code = 1 <=> (~valid /\ ~unreadable)

(***************************************************************************)
(* Properties of the builder (SpecBuild).                                  *)
(***************************************************************************)
Produced == pc \in {"built", "parsed"}

\* The timeline start frame of an event: "in" (build_canonical.py) or
\* "start" (parse_aaf.py).
StartOf(event) == IF pc = "built" THEN event.in ELSE event.start

\* C8: the events of every document produced are in ascending order of
\* timeline start frame, for every segment tree walked.
C8_EventsAscending ==
    Produced =>
        \A i \in 1..(Len(clips) - 1) : StartOf(clips[i]) <= StartOf(clips[i + 1])

\* "%04d" % k
ZeroPadded4(k) ==
    LET digits == DecimalDigits(k)
    IN IF Len(digits) >= 4 THEN digits
       ELSE [i \in 1..(4 - Len(digits)) |-> "0"] \o digits

\* C9: the k-th event produced carries the id "ev_" followed by k
\* zero-padded to 4 digits, at whatever depth it was emitted.
C9_EventIds ==
    Produced =>
        \A k \in 1..Len(clips) :
            /\ "id" \in DOMAIN clips[k]
            /\ clips[k].id = <<"e", "v", "_">> \o ZeroPadded4(k)

OperationGroupEvents == {i \in 1..Len(clips) : DOMAIN clips[i].effect_params # {}}
OperationGroupsWalked == {j \in 1..Len(log) : log[j][1] = "OperationGroup"}

\* C10: no filtering: every OperationGroup the walker reaches yields an
\* event, so the events of OperationGroups are as many as the
\* OperationGroups walked, also where several nodes cover the same range.
C10_NoFiltering ==
    pc = "built" =>
        Cardinality(OperationGroupEvents) = Cardinality(OperationGroupsWalked)

(***************************************************************************)
(* Properties of the processed-ranges guard (SpecBuild).                   *)
(***************************************************************************)
RangeOf(event) == <<event.in, event.out>>

\* The frames a walk of the segment moves the offset by when every node
\* advances by its length, emitted or not.
RECURSIVE WalkedLength(_)
RECURSIVE WalkedLengthOfAll(_)
WalkedLengthOfAll(segments) ==
    IF Len(segments) = 0 THEN 0
    ELSE WalkedLength(Head(segments)) + WalkedLengthOfAll(Tail(segments))

WalkedLength(segment) ==
    IF segment.cls = "Sequence" THEN WalkedLengthOfAll(GetAttr(segment, "components"))
    ELSE IF segment.cls \in {"OperationGroup", "SourceClip", "Filler",
                             "ScopeReference", "Transition"}
    THEN LengthOf(segment)
    ELSE IF segment.cls = "Timecode" THEN 0
    ELSE IF Len(UnknownNested(segment)) > 0
    THEN WalkedLengthOfAll(UnknownNested(segment))
    ELSE LengthOf(segment)

EmittingNodesWalked ==
    {j \in 1..Len(log) : log[j][1] \in {"OperationGroup", "SourceClip"}}

RECURSIVE ReachableSourceClips(_)
ReachableSourceClips(segments) ==
    IF Len(segments) = 0 THEN <<>>
    ELSE LET first == Head(segments)
             found == IF first.cls = "SourceClip" THEN <<first>>
                      ELSE IF first.cls = "Sequence" /\ HasAttr(first, "components")
                      THEN ReachableSourceClips(GetAttr(first, "components"))
                      ELSE <<>>
         IN found \o ReachableSourceClips(Tail(segments))

\* The event carries media and an effect, the media being that of the clip.
IsMediaAndEffect(event, clip) ==
    IF pc = "built"
    THEN /\ event.effect_params.has_media
         /\ event.source_umid = SourceUmid(clip)
         /\ event.source_path = resolve_source_path(clip)
    ELSE event.source = ParsedSourceId(clip)

\* The event is effect-only: no source, and the effect is on filler.
IsEffectOnly(event) ==
    IF pc = "built"
    THEN /\ ~event.effect_params.has_media
         /\ event.source_umid = ""
         /\ event.source_path = PyNone
    ELSE /\ event.source = PyNone
         /\ event.on_filler = "True"

\* The picture track holds the OperationGroup c and nothing else.
OnlyComponent(c) == c.cls = "OperationGroup" /\ slots = <<SequenceOf(<<c>>)>>

\* C12: the event of an OperationGroup is a media + effect event, with the
\* source of the first reachable SourceClip, exactly when a SourceClip is
\* reachable from its inputs through Sequences without entering nested
\* OperationGroups; otherwise it is effect-only, its source null and its
\* effect on filler.
C12_MediaOrEffectOnly ==
    Produced =>
        \A c \in Components :
            OnlyComponent(c) =>
                LET reachable == ReachableSourceClips(InputSegments(c).items)
                IN /\ Len(clips) = 1
                   /\ IF Len(reachable) > 0
                      THEN IsMediaAndEffect(clips[1], reachable[1])
                      ELSE IsEffectOnly(clips[1])

(***************************************************************************)
(* parse_aaf.py: resolve_umid_chain, one iteration of its loop per step.   *)
(* A mob is a record                                                       *)
(*   [has_descriptor, descriptor, user_comments, tagged_values, timecode,  *)
(*    next]                                                                *)
(* user_comments and tagged_values hold what harvest_usercomments and      *)
(* harvest_taggedvalues return for the keys "TapeID", "Tape Name" and      *)
(* "_IMPORTDISKLABEL" (JNull: the list has no such tag); timecode is the   *)
(* Timecode segment of the mob's slots, if it has one; next is the mob_id  *)
(* of the first of referenced_mobs(), PyNone if there is none.  The        *)
(* descriptor is [has_locator, locator, tagged_values]: tagged_values      *)
(* holds the values of harvest_taggedvalues(desc) in order, each a str or  *)
(* None (no bytes value is drawn).                                         *)
(***************************************************************************)
MaxMobs == 3   \* mobs of the mob map

MobNames == <<"umid:1", "umid:2", "umid:3", "umid:4">>
Urls == <<"file:///1.mov", "file:///2.mov", "file:///3.mov", "file:///4.mov">>
MobIds == {MobNames[i] : i \in 1..MaxMobs}
DanglingId == "umid:0"
UrlOf(id) == Urls[CHOOSE i \in 1..Len(MobNames) : MobNames[i] = id]

NoTags == [TapeID |-> JNull, TapeName |-> JNull, DiskLabel |-> JNull]

MobKinds == {"file", "tape", "cross"}

\* The mob id of the given kind: a file mob has a locator, a Timecode, a
\* "Tape Name" comment and a tagged disk label; a tape mob carries tape id
\* and disk label in both lists; a cross mob a tagged tape id and a disk
\* label comment.
Mob(id, kind, next) ==
    [has_descriptor |-> kind = "file",
     descriptor |-> [has_locator |-> kind = "file",
                     locator |-> [url_string |-> IF kind = "file" THEN UrlOf(id) ELSE ""],
                     tagged_values |-> <<>>],
     user_comments |->
        IF kind = "tape"
        THEN [TapeID |-> JStr(<<"uc tape ", id>>), TapeName |-> JStr(<<"uc name ", id>>),
              DiskLabel |-> JStr(<<"uc disk ", id>>)]
        ELSE IF kind = "cross"
        THEN [NoTags EXCEPT !.DiskLabel = JStr(<<"uc disk ", id>>)]
        ELSE [NoTags EXCEPT !.TapeName = JStr(<<"uc name ", id>>)],
     tagged_values |->
        IF kind = "tape"
        THEN [NoTags EXCEPT !.TapeID = JStr(<<"tv tape ", id>>),
                            !.DiskLabel = JStr(<<"tv disk ", id>>)]
        ELSE IF kind = "cross"
        THEN [NoTags EXCEPT !.TapeID = JStr(<<"tv tape ", id>>)]
        ELSE [NoTags EXCEPT !.DiskLabel = JStr(<<"tv disk ", id>>)],
     timecode |-> [has |-> kind = "file", start |-> 90000,
                   rate |-> [numerator |-> 50, denominator |-> 2], drop |-> TRUE],
     next |-> next]

\* float(numerator) / float(denominator), for a rate whose value is a whole
\* number or a whole number and a half
aafr_to_float(rational) ==
    IF 2 * (rational.numerator % rational.denominator) = rational.denominator
    THEN JHalf(rational.numerator \div rational.denominator)
    ELSE JNum(rational.numerator \div rational.denominator)

\* sub in s, s.endswith(sub) and s.strip() for strings
Contains(s, sub) ==
    \E i \in 1..(Len(s) - Len(sub) + 1) : SubSeq(s, i, i + Len(sub) - 1) = sub
StrEndsWith(s, sub) ==
    Len(s) >= Len(sub) /\ SubSeq(s, Len(s) - Len(sub) + 1, Len(s)) = sub
RECURSIVE Strip(_)
Strip(s) ==
    IF Len(s) = 0 THEN s
    ELSE IF Head(s) \in Whitespace THEN Strip(Tail(s))
    ELSE IF SubSeq(s, Len(s), Len(s)) \in Whitespace THEN Strip(SubSeq(s, 1, Len(s) - 1))
    ELSE s

\* decode_possible_path(value) for a str or None
decode_possible_path(value) ==
    IF ~Truthy(value) THEN JNull
    ELSE IF \/ Contains(value.s, "file://")
            \/ Contains(value.s, "/")
            \/ Contains(value.s, ":\\")
            \/ StrEndsWith(value.s, ".mov")
            \/ StrEndsWith(value.s, ".mxf")
    THEN JStr(Strip(value.s))
    ELSE JNull

\* for v in tv.values(): the first value that decodes to a path
RECURSIVE first_possible_path(_)
first_possible_path(values) ==
    IF Len(values) = 0 THEN JNull
    ELSE LET path == decode_possible_path(Head(values))
         IN IF Truthy(path) THEN path ELSE first_possible_path(Tail(values))

\* result = {...}
InitialResult ==
    [path |-> JNull, umid_chain |-> <<>>, tape_id |-> JNull, disk_label |-> JNull,
     src_tc_start_frames |-> JNull, src_rate_fps |-> JNull, src_drop |-> JNull]

\* while mob_id and mob_id not in visited
LoopNeverStops(id, seen) == id # PyNone
LoopContinues(id, seen) == id # PyNone /\ id \notin seen

\* The body of the loop for a mob that is in the map: what it leaves in
\* result.
Harvest(r, id, mob) ==
    LET uc == mob.user_comments
        tv == mob.tagged_values
        desc == mob.descriptor
        located == IF mob.has_descriptor /\ desc.has_locator
                   THEN JStr(desc.locator.url_string) ELSE r.path
    IN [path |-> IF mob.has_descriptor /\ ~Truthy(located)
                 THEN PyOr(first_possible_path(desc.tagged_values), located)
                 ELSE located,
        umid_chain |-> Append(r.umid_chain, id),
        tape_id |-> IF ~Truthy(r.tape_id) THEN PyOr(uc.TapeID, uc.TapeName)
                    ELSE r.tape_id,
        disk_label |-> IF ~Truthy(r.disk_label) THEN tv.DiskLabel ELSE r.disk_label,
        src_tc_start_frames |-> IF mob.timecode.has THEN JNum(mob.timecode.start)
                                ELSE r.src_tc_start_frames,
        src_rate_fps |-> IF mob.timecode.has THEN aafr_to_float(mob.timecode.rate)
                         ELSE r.src_rate_fps,
        src_drop |-> IF mob.timecode.has THEN JBool(mob.timecode.drop)
                     ELSE r.src_drop]

\* The mob tables resolved against, and the clip's SourceID: the first mob,
\* an id with no mob, or none.
DrawMobs ==
    /\ \E kinds \in [MobIds -> MobKinds],
          nexts \in [MobIds -> MobIds \cup {PyNone, DanglingId}] :
          mobs = [id \in MobIds |-> Mob(id, kinds[id], nexts[id])]
    /\ clip_ref \in {MobNames[1], DanglingId, PyNone}

(***************************************************************************)
(* SpecResolve: one source resolution, by parse_aaf.py (resolve_umid_chain)*)
(* or by build_canonical.py (resolve_source_path).                         *)
(***************************************************************************)
InitResolve ==
    /\ pc = "start"
    /\ DrawMobs
    /\ mob_id = ""
    /\ visited = {}
    /\ src_info = <<>>
    /\ NothingSelected
    /\ NothingBuilt
    /\ file = "json"
    /\ data = JNull
    /\ outcome = NotCalled
    /\ exit_code = -1
    /\ report_out = "none"
    /\ NothingStored

others == <<file, data, outcome, exit_code, report_out,
            slots, clips, processed_ranges, log, end_offset, selection>>

\* lines 139-155: the result is set up and the SourceID read
EnterResolveUmidChain ==
    /\ pc = "start"
    /\ src_info' = InitialResult
    /\ mob_id' = clip_ref
    /\ visited' = {}
    /\ pc' = "resolving"
    /\ UNCHANGED <<mobs, clip_ref, others>>
    /\ UNCHANGED store

\* one iteration of the loop
Hop ==
    /\ pc = "resolving"
    /\ LoopContinues(mob_id, visited)
    /\ visited' = visited \cup {mob_id}
    /\ IF mob_id \notin DOMAIN mobs
       THEN /\ pc' = "resolved"
            /\ UNCHANGED <<src_info, mob_id>>
       ELSE /\ src_info' = Harvest(src_info, mob_id, mobs[mob_id])
            /\ IF mobs[mob_id].next = PyNone
               THEN pc' = "resolved" /\ UNCHANGED mob_id
               ELSE pc' = "resolving" /\ mob_id' = mobs[mob_id].next
    /\ UNCHANGED <<mobs, clip_ref, others>>
    /\ UNCHANGED store

\* the loop condition fails: return result
ReturnResult ==
    /\ pc = "resolving"
    /\ ~LoopContinues(mob_id, visited)
    /\ pc' = "resolved"
    /\ UNCHANGED <<resolver, others>>
    /\ UNCHANGED store

\* build_canonical.py: resolve_source_path(segment, mob_map) for the clip
ResolveSourcePath ==
    /\ pc = "start"
    /\ LET source_clip == SourceClipOf(IF clip_ref = PyNone THEN {} ELSE {"source_id"},
                                       1, clip_ref)
       IN src_info' = [source_path |-> resolve_source_path_in(source_clip, mobs)]
    /\ pc' = "path_resolved"
    /\ UNCHANGED <<mobs, clip_ref, mob_id, visited, others>>
    /\ UNCHANGED store

NextResolve == EnterResolveUmidChain \/ Hop \/ ReturnResult \/ ResolveSourcePath

SpecResolve == InitResolve /\ [][NextResolve]_vars

\* The scheduling of the resolver: a call that can take a step takes it.
SpecResolveFair == SpecResolve /\ WF_vars(NextResolve)

(***************************************************************************)
(* Properties of the source resolution (SpecResolve, SpecResolveFair).     *)
(***************************************************************************)
\* The mobs met from id on by following next, up to a missing mob, a mob
\* with no next, or an id met before.
RECURSIVE ChainFrom(_, _)
ChainFrom(id, seen) ==
    IF id = PyNone \/ id \in seen \/ id \notin DOMAIN mobs THEN <<>>
    ELSE <<id>> \o (IF mobs[id].next = PyNone THEN <<>>
                    ELSE ChainFrom(mobs[id].next, seen \cup {id}))

\* What the mobs of the chain leave in the result, nearest first.
RECURSIVE Collected(_, _)
Collected(r, chain) ==
    IF Len(chain) = 0 THEN r
    ELSE Collected(Harvest(r, Head(chain), mobs[Head(chain)]), Tail(chain))

Returned13 == pc \in {"resolved", "path_resolved"}

ChainBounded ==
    pc \in {"resolving", "resolved"} =>
        /\ \A i, j \in 1..Len(src_info.umid_chain) :
              i # j => src_info.umid_chain[i] # src_info.umid_chain[j]
        /\ Len(src_info.umid_chain) <= Cardinality(DOMAIN mobs)
        /\ pc = "resolved" =>
              /\ src_info.umid_chain = ChainFrom(clip_ref, {})
              /\ src_info = Collected(InitialResult, ChainFrom(clip_ref, {}))

WithPath ==
    {i \in 1..Len(ChainFrom(clip_ref, {})) :
        mobs[ChainFrom(clip_ref, {})[i]].has_descriptor}

FirstWithPath == CHOOSE i \in WithPath : \A j \in WithPath : i <= j

\* C14: the resolution follows the chain up to the first mob that exposes a
\* locator path and stops there: the path is that mob's and the umid_chain
\* ends at that mob; the path is null if no mob of the chain exposes one.
C14_AuthoritativePath ==
    LET chain == ChainFrom(clip_ref, {})
    IN /\ pc = "resolved" =>
            IF WithPath # {}
            THEN /\ src_info.path = JStr(UrlOf(chain[FirstWithPath]))
                 /\ src_info.umid_chain = SubSeq(chain, 1, FirstWithPath)
            ELSE src_info.path = JNull
       /\ pc = "path_resolved" =>
            IF WithPath # {}
            THEN src_info.source_path = UrlOf(chain[FirstWithPath])
            ELSE src_info.source_path = PyNone

\* The value a mob carries: that of its user comments if they hold one,
\* else that of its generic attribute list.
CarriedTapeId(mob) ==
    PyOr(PyOr(mob.user_comments.TapeID, mob.user_comments.TapeName),
         PyOr(mob.tagged_values.TapeID, mob.tagged_values.TapeName))
CarriedDiskLabel(mob) == PyOr(mob.user_comments.DiskLabel, mob.tagged_values.DiskLabel)

\* The value of the nearest mob of the chain that carries one.
RECURSIVE NearestTapeId(_)
NearestTapeId(chain) ==
    IF Len(chain) = 0 THEN JNull
    ELSE PyOr(CarriedTapeId(mobs[Head(chain)]), NearestTapeId(Tail(chain)))
RECURSIVE NearestDiskLabel(_)
NearestDiskLabel(chain) ==
    IF Len(chain) = 0 THEN JNull
    ELSE PyOr(CarriedDiskLabel(mobs[Head(chain)]), NearestDiskLabel(Tail(chain)))

\* C15: tape_id and disk_label are those of the nearest mob of the chain
\* that carries a value, and within a mob the user-comments value is
\* preferred over the value of the generic attribute list.
C15_NearestMobWins ==
    pc = "resolved" =>
        /\ src_info.tape_id = NearestTapeId(src_info.umid_chain)
        /\ src_info.disk_label = NearestDiskLabel(src_info.umid_chain)

SourceKeys ==
    {"path", "umid_chain", "tape_id", "disk_label",
     "src_tc_start_frames", "src_rate_fps", "src_drop"}

\* C16: the resolved source has all seven keys whatever the chain yields,
\* and when the chain resolves nothing its path, tape_id, disk_label and
\* src_tc_start_frames are null, its src_drop false and its src_rate_fps
\* 25.0.
C16_SourceDefaults ==
    pc \in {"resolved", "path_resolved"} =>
        /\ DOMAIN src_info = SourceKeys
        /\ Len(ChainFrom(clip_ref, {})) = 0 =>
              /\ src_info.path = JNull
              /\ src_info.tape_id = JNull
              /\ src_info.disk_label = JNull
              /\ src_info.src_tc_start_frames = JNull
              /\ src_info.src_drop = JBool(FALSE)
              /\ src_info.src_rate_fps = JNum(25)

(***************************************************************************)
(* Timeline selection and the build of a document (build_canonical.py:     *)
(* select_top_sequence and build_canonical_from_aaf once the file is open; *)
(* parse_aaf.py: the selection in main).  A mob of the file is a record    *)
(* [cls, has_name, name, slots]: its class name, its name as characters,   *)
(* and the segments of its slots.  A slot whose segment has "edit_rate" in *)
(* has is a slot with an edit rate, of 24/1.  A Timecode segment with      *)
(* "start" in has carries the fields start and drop.                       *)
(***************************************************************************)
S_Suffix == <<".", "E", "x", "p", "o", "r", "t", "e", "d", ".", "0", "1">>
S_UnknownTimeline == <<"U", "n", "k", "n", "o", "w", "n", " ",
                       "T", "i", "m", "e", "l", "i", "n", "e">>
S_DefaultStart == <<"1", "0", ":", "0", "0", ":", "0", "0", ":", "0", "0">>

\* str.endswith
NeverEndsWith(s, suffix) == FALSE
EndsWith(s, suffix) ==
    /\ Len(s) >= Len(suffix)
    /\ SubSeq(s, Len(s) - Len(suffix) + 1, Len(s)) = suffix

FirstOf(S) == CHOOSE i \in S : \A j \in S : i <= j
LastOf(S) == CHOOSE i \in S : \A j \in S : i >= j

\* comp_mobs, as the places in the mob list
every_mob(mob_list) == 1..Len(mob_list)
comp_mobs(mob_list) ==
    {i \in 1..Len(mob_list) : mob_list[i].cls = "CompositionMob"}

\* Prefer *.Exported.01, else take first; 0 if there is no CompositionMob.
selected_mob(mob_list) ==
    LET exported == {i \in comp_mobs(mob_list) :
                        /\ mob_list[i].has_name
                        /\ Len(mob_list[i].name) > 0
                        /\ EndsWith(mob_list[i].name, S_Suffix)}
    IN IF comp_mobs(mob_list) = {} THEN 0
       ELSE IF exported # {} THEN FirstOf(exported)
       ELSE FirstOf(comp_mobs(mob_list))

\* parse_aaf.py main: str(getattr(m, "name", "")).endswith(".Exported.01")
parsed_comp(mob_list) ==
    LET named(i) == IF mob_list[i].has_name THEN mob_list[i].name ELSE <<>>
        exported == {i \in comp_mobs(mob_list) : EndsWith(named(i), S_Suffix)}
    IN IF comp_mobs(mob_list) = {} THEN 0
       ELSE IF exported # {} THEN FirstOf(exported)
       ELSE FirstOf(comp_mobs(mob_list))

\* f"{n:02d}" for n >= 0
TwoDigits(n) == IF n < 10 THEN <<"0">> \o DecimalDigits(n) ELSE DecimalDigits(n)

frames_to_timecode(frames, fps) ==
    IF fps = 0 THEN S_DefaultStart
    ELSE TwoDigits(frames \div (fps * 60 * 60)) \o <<":">>
         \o TwoDigits((frames % (fps * 60 * 60)) \div (fps * 60)) \o <<":">>
         \o TwoDigits((frames % (fps * 60)) \div fps) \o <<":">>
         \o TwoDigits(frames % fps)

\* _find_start_timecode: the start of the first Timecode found in the
\* segment, its components and its input segments; -1 for None.
RECURSIVE find_start_timecode(_)
RECURSIVE find_start_timecode_in(_)
find_start_timecode_in(segments) ==
    IF Len(segments) = 0 THEN -1
    ELSE LET found == find_start_timecode(Head(segments))
         IN IF found # -1 THEN found ELSE find_start_timecode_in(Tail(segments))

find_start_timecode(segment) ==
    IF TypeNameContains(segment.cls, "Timecode")
    THEN (IF "start" \in segment.has THEN segment.start ELSE 0)
    ELSE LET in_components ==
                 IF HasAttr(segment, "components")
                 THEN find_start_timecode_in(GetAttr(segment, "components")) ELSE -1
         IN IF in_components # -1 THEN in_components
            ELSE IF HasAttr(segment, "input_segments")
            THEN find_start_timecode_in(GetAttr(segment, "input_segments"))
            ELSE -1

\* select_top_sequence: the mob selected and the timeline's metadata, or
\* the ValueError raised.
select_top_sequence(mob_list) ==
    LET at == selected_mob(mob_list)
        mob == mob_list[at]
        timeline_name == IF mob.has_name /\ Len(mob.name) > 0 THEN mob.name
                         ELSE S_UnknownTimeline
        sequences == {i \in 1..Len(mob.slots) :
                         TypeNameContains(mob.slots[i].cls, "Sequence")}
        timecodes == {i \in 1..Len(mob.slots) :
                         TypeNameContains(mob.slots[i].cls, "Timecode")}
        picture_slot == mob.slots[LastOf(sequences)]
        fps == IF "edit_rate" \in picture_slot.has THEN 24 ELSE 25
        start_frames == IF timecodes # {}
                        THEN find_start_timecode(mob.slots[LastOf(timecodes)])
                        ELSE find_start_timecode(picture_slot)
    IN IF at = 0
       THEN [kind |-> "raise", selected |-> 0,
             message |-> <<"No CompositionMobs found in AAF">>]
       ELSE IF sequences = {}
       THEN [kind |-> "raise", selected |-> at,
             message |-> <<"No picture slot found in ">> \o timeline_name]
       ELSE [kind |-> "ok", selected |-> at, fps |-> fps, is_drop |-> FALSE,
             start_tc_string |-> IF start_frames # -1
                                 THEN frames_to_timecode(start_frames, fps)
                                 ELSE S_DefaultStart,
             timeline_name |-> timeline_name]

\* build_canonical_from_aaf with the file open: the document returned, or
\* the ValueError that wraps what select_top_sequence raised.
build_canonical_from_aaf(mob_list) ==
    LET top == select_top_sequence(mob_list)
        walk == extract_clips_from_comp_mob(mob_list[top.selected].slots)
    IN IF top.kind = "raise"
       THEN [kind |-> "raise", error |-> "ValueError",
             message |-> <<"AAF parsing failed: ">> \o top.message,
             walk |-> NoWalk, offset |-> 0]
       ELSE [kind |-> "document",
             doc |-> [timeline |->
                        [name |-> top.timeline_name,
                         rate |-> top.fps,
                         start |-> top.start_tc_string,
                         tracks |-> << [clips |-> walk.w.clips] >>]],
             walk |-> walk.w, offset |-> walk.offset]

(***************************************************************************)
(* The files built from.                                                   *)
(***************************************************************************)
MaxFileMobs == 3   \* mobs of the file

FileMob(cls, has_name, name, mob_slots) ==
    [cls |-> cls, has_name |-> has_name, name |-> name, slots |-> mob_slots]

WithEditRate(segment) == [segment EXCEPT !.has = @ \cup {"edit_rate"}]

\* A clip whose source id has no mob, and an effect with no operation_def.
UnresolvedClip == SourceClipOf({"length", "source_id"}, 1, "umid:C")
UnnamedEffect == OperationGroupOf({"length"}, 1, Blur, <<>>)

SlotLists ==
    {<<WithEditRate(SequenceOf(<<MediaClip, PlainEffect>>))>>,
     <<Leaf("Timecode", 1), SequenceOf(<<UnresolvedClip, UnnamedEffect>>)>>,
     <<Leaf("Timecode", 1)>>,
     <<MediaClip>>,
     <<>>}

\* Names: with the suffix, without it, with the suffix inside, and none.
FileMobNames ==
    {[has_name |-> TRUE, name |-> S_Exported],
     [has_name |-> TRUE, name |-> S_MyTimeline],
     [has_name |-> TRUE, name |-> S_Exported \o <<".", "c", "o", "p", "y">>],
     [has_name |-> FALSE, name |-> <<>>]}

FileMobs ==
    {FileMob("CompositionMob", n.has_name, n.name, sl) :
        n \in FileMobNames, sl \in SlotLists}
    \cup {FileMob("MasterMob", TRUE, S_Exported, <<MediaClip>>),
          FileMob("SourceMob", TRUE, S_MyTimeline, <<>>)}

(***************************************************************************)
(* SpecSelect: one build from an open file, by build_canonical.py          *)
(* (build_canonical_from_aaf) or by parse_aaf.py (main).                   *)
(***************************************************************************)
InitSelect ==
    /\ pc = "start"
    /\ content \in SeqsUpTo(FileMobs, MaxFileMobs)
    /\ selected = 0
    /\ canon = <<>>
    /\ NothingBuilt
    /\ NothingResolved
    /\ file = "json"
    /\ data = JNull
    /\ outcome = NotCalled
    /\ exit_code = -1
    /\ report_out = "none"
    /\ NothingStored

BuildCanonicalFromAaf ==
    /\ pc = "start"
    /\ LET built == build_canonical_from_aaf(content)
       IN /\ canon' = IF built.kind = "raise"
                      THEN [kind |-> "raise", error |-> built.error,
                            message |-> built.message]
                      ELSE [kind |-> "document", doc |-> built.doc]
          /\ clips' = built.walk.clips
          /\ processed_ranges' = built.walk.processed_ranges
          /\ log' = built.walk.log
          /\ end_offset' = built.offset
          /\ pc' = IF built.kind = "raise" THEN "build_failed" ELSE "canon_built"
    /\ selected' = selected_mob(content)
    /\ UNCHANGED <<content, slots, resolver>>
    /\ UNCHANGED <<file, data, outcome, exit_code, report_out>>
    /\ UNCHANGED store

\* parse_aaf.py main: no CompositionMob exits with status 1; else the first
\* slot of the composition selected is parsed (no segment drawn has a data
\* definition), which raises if there is no slot or no components.
ParseAafMain ==
    /\ pc = "start"
    /\ selected' = parsed_comp(content)
    /\ IF selected' = 0
       THEN /\ pc' = "exit_1"
            /\ UNCHANGED <<clips, end_offset>>
       ELSE LET comp_slots == content[selected'].slots
            IN IF Len(comp_slots) > 0 /\ HasAttr(comp_slots[1], "components")
               THEN LET p == parse_sequence(comp_slots[1],
                                            [event_list |-> <<>>,
                                             timeline_start_frames |-> 0])
                    IN /\ clips' = p.event_list
                       /\ end_offset' = p.timeline_start_frames
                       /\ pc' = "parsed"
               ELSE /\ pc' = "parse_failed"
                    /\ UNCHANGED <<clips, end_offset>>
    /\ UNCHANGED <<content, canon, slots, processed_ranges, log, resolver>>
    /\ UNCHANGED <<file, data, outcome, exit_code, report_out>>
    /\ UNCHANGED store

NextSelect == BuildCanonicalFromAaf \/ ParseAafMain

SpecSelect == InitSelect /\ [][NextSelect]_vars

(***************************************************************************)
(* Properties of the selection and of the build (SpecSelect).              *)
(***************************************************************************)
HasSuffix(i) ==
    /\ content[i].has_name
    /\ Len(content[i].name) >= Len(S_Suffix)
    /\ \A k \in 1..Len(S_Suffix) :
          content[i].name[Len(content[i].name) - Len(S_Suffix) + k] = S_Suffix[k]

CompositionMobs == {i \in 1..Len(content) : content[i].cls = "CompositionMob"}

\* C17: the composition selected is the first composition mob of the mob
\* list whose name ends with ".Exported.01"; if no composition mob has such
\* a name it is the first composition mob, and the selection does not fail.
C17_TimelineSelection ==
    pc # "start" /\ CompositionMobs # {} =>
        /\ selected \in CompositionMobs
        /\ IF \E i \in CompositionMobs : HasSuffix(i)
           THEN /\ HasSuffix(selected)
                /\ \A i \in CompositionMobs : HasSuffix(i) => selected <= i
           ELSE \A i \in CompositionMobs : selected <= i
        /\ pc # "exit_1"
        /\ pc = "build_failed" =>
              canon.message # <<"AAF parsing failed: ", "No CompositionMobs found in AAF">>

\* A file whose first composition mob has no suffix and a later one has.
C17_Witness ==
    /\ pc # "start"
    /\ CompositionMobs # {}
    /\ selected > FirstOf(CompositionMobs)

\* There is no composition mob, or the one selected has no slot whose
\* segment is a Sequence.
NoUsableTimeline ==
    \/ CompositionMobs = {}
    \/ \A i \in 1..Len(content[selected].slots) :
          content[selected].slots[i].cls # "Sequence"

BuildEnded == pc \in {"canon_built", "build_failed"}

\* The events of the document returned.
DocumentClips == canon.doc.timeline.tracks[1].clips

\* The clips and effects of the picture track whose source id has no mob or
\* that have no operation definition are in the document with null or
\* default fields.
UnresolvedEmitted ==
    \A i \in 1..Len(content[selected].slots) :
        content[selected].slots[i] = SequenceOf(<<UnresolvedClip, UnnamedEffect>>) =>
            /\ Len(DocumentClips) = 2
            /\ DocumentClips[1].source_path = PyNone
            /\ DocumentClips[2].effect_params.operation = <<"Unknown Effect">>

PathJson(source_path) == IF source_path = PyNone THEN JNull ELSE JStr(<<source_path>>)

EffectParamsJson(event) ==
    IF event.effect_params = NoParams THEN EmptyObj
    ELSE JObj(<< <<"operation", JStr(event.effect_params.operation)>>,
                 <<"has_media", JBool(event.effect_params.has_media)>>,
                 <<"input_count", JNum(event.effect_params.input_count)>>,
                 <<"length", JNum(event.effect_params.length)>> >>)

ClipJson(event) ==
    JObj(<< <<"name", JStr(event.name)>>,
            <<"in", JNum(event.in)>>,
            <<"out", JNum(event.out)>>,
            <<"source_umid", JStr(<<event.source_umid>>)>>,
            <<"source_path", PathJson(event.source_path)>>,
            <<"effect_params", EffectParamsJson(event)>> >>)

CanonJson ==
    LET timeline == canon.doc.timeline
        clip_list == timeline.tracks[1].clips
    IN JObj(<< <<"timeline",
                 JObj(<< <<"name", JStr(timeline.name)>>,
                         <<"rate", JNum(timeline.rate)>>,
                         <<"start", JStr(timeline.start)>>,
                         <<"tracks",
                           JArr(<< JObj(<< <<"clips",
                                JArr([i \in 1..Len(clip_list) |->
                                         ClipJson(clip_list[i])])>> >>) >>)>> >>)>> >>)

\* The codes of a missing required key and of a key that is not allowed.
KeyCodes ==
    {MISSING_PROJECT, MISSING_TIMELINE, EXTRA_TOP_LEVEL_KEYS,
     MISSING_PROJECT_NAME, MISSING_PROJECT_EDIT_RATE, MISSING_PROJECT_TC_FORMAT,
     MISSING_TIMELINE_NAME, MISSING_TIMELINE_START_TC, MISSING_TIMELINE_EVENTS,
     MISSING_EVENT_ID, MISSING_EVENT_TIMELINE_START, MISSING_EVENT_LENGTH,
     MISSING_EVENT_SOURCE, MISSING_EVENT_EFFECT}

EventKeys == {"id", "timeline_start_frames", "length_frames", "source", "effect"}

HasKeys(d, keys) == d.t = "obj" /\ \A k \in keys : HasKey(d, k)

\* C19: a document returned by the builder has the project / timeline /
\* events nesting with every required key present, so the validator
\* reports no missing key and no extra key for it.
C19_BuilderOutputShape ==
    pc = "canon_built" =>
        /\ HasKeys(CanonJson, {"project", "timeline"})
        /\ HasKeys(Item(CanonJson, "project"), {"name", "edit_rate_fps", "tc_format"})
        /\ HasKeys(Item(CanonJson, "timeline"), {"name", "start_tc_frames", "events"})
        /\ \A i \in 1..Len(Item(Item(CanonJson, "timeline"), "events").a) :
              HasKeys(Item(Item(CanonJson, "timeline"), "events").a[i], EventKeys)
        /\ LET validated == validate_canonical_json(CanonJson)
           IN /\ validated.kind = "report"
              /\ \A i \in 1..Len(validated.report.errors) :
                    validated.report.errors[i].code \notin KeyCodes

\* C20: every event the segment walker emits starts at a frame >= 0 and is
\* at least one frame long, whatever the tree, also when the declared
\* length of an OperationGroup or SourceClip is 0 or missing.
C20_StartAndLength ==
    pc = "built" =>
        \A i \in 1..Len(clips) :
            /\ clips[i].in >= 0
            /\ clips[i].out - clips[i].in >= 1

(***************************************************************************)
(* SpecPath: the resolution of a clip whose mob holds one path, in the     *)
(* locator of its descriptor or among the descriptor's tagged values, by   *)
(* resolve_umid_chain or by resolve_source_path.  The mob refers to no     *)
(* further mob, or to itself.                                              *)
(***************************************************************************)
MaxPad == 1   \* whitespace characters at either end of a path value

RECURSIVE Pads(_)
Pads(n) ==
    IF n = 0 THEN {""}
    ELSE Pads(n - 1) \cup {p \o w : p \in Pads(n - 1), w \in Whitespace}

PathBodies ==
    {"\\\\SERVER\\share\\clip.mov", "\\\\SERVER\\share\\clip.wav",
     "file:///Volumes/My%20Media/clip.mov", "C:\\Media\\clip.wav",
     "/Volumes/Media/clip.mxf"}

PathValues == {lead \o body \o trail : lead \in Pads(MaxPad), body \in PathBodies,
                                       trail \in Pads(MaxPad)}

NoPath == "Avid Media Composer"

Holders == {"locator", "tagged value", "second tagged value"}

PathMob(path, holder, next) ==
    [has_descriptor |-> TRUE,
     descriptor |-> [has_locator |-> holder = "locator",
                     locator |-> [url_string |-> IF holder = "locator" THEN path ELSE ""],
                     tagged_values |->
                        IF holder = "tagged value" THEN <<JStr(path)>>
                        ELSE IF holder = "second tagged value"
                        THEN <<JStr(NoPath), JStr(path)>>
                        ELSE <<JStr(NoPath)>>],
     user_comments |-> NoTags,
     tagged_values |-> NoTags,
     timecode |-> [has |-> FALSE, start |-> 0,
                   rate |-> [numerator |-> 25, denominator |-> 1], drop |-> FALSE],
     next |-> next]

InitPath ==
    /\ pc = "start"
    /\ clip_ref = MobNames[1]
    /\ \E path \in PathValues, holder \in Holders, next \in {PyNone, MobNames[1]} :
          mobs = [id \in {MobNames[1]} |-> PathMob(path, holder, next)]
    /\ mob_id = ""
    /\ visited = {}
    /\ src_info = <<>>
    /\ NothingSelected
    /\ NothingBuilt
    /\ file = "json"
    /\ data = JNull
    /\ outcome = NotCalled
    /\ exit_code = -1
    /\ report_out = "none"
    /\ NothingStored

SpecPath == InitPath /\ [][NextResolve]_vars

\* The path string that the mob of the clip holds.
HeldPath ==
    LET desc == mobs[clip_ref].descriptor
    IN IF desc.has_locator THEN desc.locator.url_string
       ELSE desc.tagged_values[Len(desc.tagged_values)].s

\* C21: the path of the resolved source is the exact string that the
\* locator or the path-bearing value of the clip's mob holds: nothing is
\* trimmed, rewritten or decoded, for UNC paths, percent-encoded file://
\* URLs and values with whitespace at either end alike.
C21_PathFidelity ==
    /\ pc = "resolved" => src_info.path = JStr(HeldPath)
    /\ pc = "path_resolved" => src_info.source_path = HeldPath

(***************************************************************************)
(* Properties of the walk, node by node (SpecBuild).                       *)
(***************************************************************************)
\* The nodes walked as timeline components, in the order of the walk: a
\* Sequence is followed by its components, a node of unknown kind by the
\* children explored; the inputs of an OperationGroup are not among them.
RECURSIVE TimelineNodes(_)
RECURSIVE TimelineNodesOfAll(_)
TimelineNodesOfAll(segments) ==
    IF Len(segments) = 0 THEN <<>>
    ELSE TimelineNodes(Head(segments)) \o TimelineNodesOfAll(Tail(segments))

TimelineNodes(segment) ==
    <<segment>> \o
    (IF segment.cls = "Sequence" THEN TimelineNodesOfAll(GetAttr(segment, "components"))
     ELSE IF segment.cls \in {"OperationGroup", "SourceClip", "Filler",
                              "ScopeReference", "Transition", "Timecode"}
     THEN <<>>
     ELSE TimelineNodesOfAll(UnknownNested(segment)))

WalkedNodes ==
    IF PictureSlot(slots) = 0 THEN <<>>
    ELSE TimelineNodes(slots[PictureSlot(slots)])

\* The offset returned by the walk of the j-th node walked, for a node with
\* no children walked: the offset the next node is walked at, or the offset
\* the whole walk returns.
ReturnedAfter(j) == IF j < Len(log) THEN log[j + 1][2] ELSE end_offset

\* The k-th element of a set of indices.
NthOf(S, k) == CHOOSE i \in S : Cardinality({x \in S : x <= i}) = k

\* C22: an OperationGroup walked at offset o with declared length L appends
\* exactly one event, covering [o, o+L), and returns o+L, whatever its
\* inputs; its inputs are not walked as timeline components: they add no
\* event and no offset.
C22_OperationGroupOneEvent ==
    pc = "built" =>
        /\ Len(log) = Len(WalkedNodes)
        /\ \A j \in 1..Len(log) : log[j][1] = WalkedNodes[j].cls
        /\ Cardinality(OperationGroupEvents) = Cardinality(OperationGroupsWalked)
        /\ \A j \in OperationGroupsWalked :
              LET o == log[j][2]
                  L == LengthOf(WalkedNodes[j])
                  k == Cardinality({i \in OperationGroupsWalked : i <= j})
                  event == clips[NthOf(OperationGroupEvents, k)]
              IN /\ event.in = o
                 /\ event.out = o + L
                 /\ ReturnedAfter(j) = o + L

(***************************************************************************)
(* SpecWalk: the walk of one picture track by extract_clips_from_comp_mob, *)
(* the track a Sequence of at most MaxSiblings of the components.          *)
(***************************************************************************)
MaxSiblings == 2

InitWalk ==
    /\ pc = "start"
    /\ \E cs \in SeqsUpTo(Components, MaxSiblings) : slots = <<SequenceOf(cs)>>
    /\ clips = <<>>
    /\ processed_ranges = {}
    /\ log = <<>>
    /\ end_offset = 0
    /\ file = "json"
    /\ data = JNull
    /\ outcome = NotCalled
    /\ exit_code = -1
    /\ report_out = "none"
    /\ NothingStored
    /\ NothingResolved
    /\ NothingSelected

SpecWalk == InitWalk /\ [][ExtractClipsFromCompMob]_vars

\* The offset returned by the walk of the j-th node walked: the offset at
\* which the node after its subtree is walked, or the offset the whole walk
\* returns.
ReturnedBy(j) ==
    LET after == j + Len(TimelineNodes(WalkedNodes[j]))
    IN IF after <= Len(log) THEN log[after][2] ELSE end_offset

NonEmittingLeaves ==
    {c \in Components : c.cls \in {"Filler", "Transition", "ScopeReference", "Timecode"}}

\* Walking segment next, in the state the walk has ended in.
WalkedNext(segment) ==
    extract_clips_recursive(segment,
        [clips |-> clips, processed_ranges |-> processed_ranges, log |-> log],
        end_offset)

\* C23: a Filler, Transition or ScopeReference of length L walked at offset
\* o adds no event and returns o+L; a Timecode adds no event and returns o;
\* the components of a Sequence are walked in order, the first at the
\* offset of the Sequence and each next one at the offset the previous one
\* returned, and the Sequence returns the offset its last component
\* returned.
C23_NonEmittingKinds ==
    pc = "built" =>
        /\ Len(log) = Len(WalkedNodes)
        /\ \A j \in 1..Len(log) :
              LET node == WalkedNodes[j]
                  o == log[j][2]
              IN /\ log[j][1] = node.cls
                 /\ node.cls \in {"Filler", "Transition", "ScopeReference"} =>
                        ReturnedBy(j) = o + LengthOf(node)
                 /\ node.cls = "Timecode" => ReturnedBy(j) = o
                 /\ node.cls = "Sequence" =>
                        LET cs == GetAttr(node, "components")
                        IN /\ \A k \in 1..Len(cs) :
                                 LET before == SubSeq(cs, 1, k - 1)
                                     at == j + 1 + Len(TimelineNodesOfAll(before))
                                 IN /\ log[at][1] = cs[k].cls
                                    /\ log[at][2] = IF k = 1 THEN o ELSE ReturnedBy(at - Len(TimelineNodes(cs[k - 1])))
                           /\ ReturnedBy(j) =
                                 IF Len(cs) = 0 THEN o
                                 ELSE ReturnedBy(j + 1 + Len(TimelineNodesOfAll(
                                                    SubSeq(cs, 1, Len(cs) - 1))))
                           /\ ReturnedBy(j) = o + WalkedLengthOfAll(cs)
        /\ Len(clips) <= Cardinality(EmittingNodesWalked)
        /\ \A i \in 1..Len(clips) :
              \E j \in EmittingNodesWalked :
                  /\ clips[i].in = log[j][2]
                  /\ clips[i].out = log[j][2] + LengthOf(WalkedNodes[j])
        /\ \A c \in NonEmittingLeaves :
              /\ WalkedNext(c).w.clips = clips
              /\ WalkedNext(c).offset =
                    IF c.cls = "Timecode" THEN end_offset
                    ELSE end_offset + LengthOf(c)

\* A walk that met a Filler of length 1 after the events of a Sequence
\* nested in the picture track's Sequence.
C23_Witness ==
    /\ pc = "built"
    /\ Len(clips) >= 2
    /\ \E j \in 2..Len(log) :
          /\ log[j] = <<"Filler", 2>>
          /\ LengthOf(WalkedNodes[j]) = 1
          /\ ReturnedBy(j) = 3
    /\ \E j \in 2..Len(log) : log[j][1] = "Sequence"

\* The children of a node of unknown kind: those of the first of its
\* generic containers that holds any.
ChildrenHeld(segment) ==
    LET names == <<"segments", "components", "inputs", "input_segments">>
        holding == {i \in 1..Len(names) :
                        /\ HasAttr(segment, names[i])
                        /\ Len(GetAttr(segment, names[i])) > 0}
    IN IF holding = {} THEN <<>>
       ELSE GetAttr(segment, names[CHOOSE i \in holding : \A k \in holding : i <= k])

IsUnknownKind(segment) ==
    segment.cls \notin {"Sequence", "OperationGroup", "SourceClip", "Filler",
                        "ScopeReference", "Transition", "Timecode"}

\* The nodes to walk, in order, when a node of unknown kind is followed by
\* the children it holds.
RECURSIVE NodesToWalk(_)
RECURSIVE NodesToWalkOfAll(_)
NodesToWalkOfAll(segments) ==
    IF Len(segments) = 0 THEN <<>>
    ELSE NodesToWalk(Head(segments)) \o NodesToWalkOfAll(Tail(segments))

NodesToWalk(segment) ==
    <<segment>> \o
    (IF segment.cls = "Sequence" THEN NodesToWalkOfAll(GetAttr(segment, "components"))
     ELSE IF IsUnknownKind(segment) THEN NodesToWalkOfAll(ChildrenHeld(segment))
     ELSE <<>>)

\* C24: for a node of unknown kind walked at offset o, the children of the
\* first generic container that holds any are walked in order from o; only
\* a node none of whose containers holds children is skipped, the offset
\* advancing by its declared length.  A node with an empty 'segments' and a
\* non-empty 'components' has its components walked.
C24_UnknownKind ==
    pc = "built" =>
        LET nodes == NodesToWalk(slots[1])
        IN /\ Len(log) = Len(nodes)
           /\ \A j \in 1..Len(log) :
                 /\ log[j][1] = nodes[j].cls
                 /\ IsUnknownKind(nodes[j]) =>
                        IF Len(ChildrenHeld(nodes[j])) = 0
                        THEN ReturnedAfter(j) = log[j][2] + LengthOf(nodes[j])
                        ELSE /\ j < Len(log)
                             /\ log[j + 1] = <<ChildrenHeld(nodes[j])[1].cls, log[j][2]>>

(***************************************************************************)
(* SpecTimeline: one build from a file whose only mob is a composition of  *)
(* at most MaxSlots slots: Timecode slots, Sequence slots with and without *)
(* an edit rate and with a Timecode among their components, and a slot     *)
(* that is neither.                                                        *)
(***************************************************************************)
MaxSlots == 3

TimecodeOf(start, drop) ==
    [cls |-> "Timecode", has |-> {"length", "start", "drop"}, length |-> 1,
     name |-> "", source_id |-> "", operation_def |-> <<>>, attrs |-> <<>>,
     start |-> start, drop |-> drop]

SlotChoices ==
    {TimecodeOf(90000, TRUE),
     TimecodeOf(1500, FALSE),
     WithEditRate(SequenceOf(<<MediaClip, PlainEffect>>)),
     SequenceOf(<<TimecodeOf(3000, TRUE), PlainEffect, MediaClip, PlainEffect>>),
     MediaClip}

InitTimeline ==
    /\ pc = "start"
    /\ \E mob_slots \in SeqsUpTo(SlotChoices, MaxSlots) :
          content = <<FileMob("CompositionMob", TRUE, S_Exported, mob_slots)>>
    /\ selected = 0
    /\ canon = <<>>
    /\ NothingBuilt
    /\ NothingResolved
    /\ file = "json"
    /\ data = JNull
    /\ outcome = NotCalled
    /\ exit_code = -1
    /\ report_out = "none"
    /\ NothingStored

SpecTimeline == InitTimeline /\ [][NextSelect]_vars

(***************************************************************************)
(* Properties of the timeline's metadata (SpecTimeline).                   *)
(***************************************************************************)
\* The Timecode nodes of a segment tree, depth-first through components
\* and input segments.
RECURSIVE TimecodeNodes(_)
RECURSIVE TimecodeNodesOfAll(_)
TimecodeNodesOfAll(segments) ==
    IF Len(segments) = 0 THEN <<>>
    ELSE TimecodeNodes(Head(segments)) \o TimecodeNodesOfAll(Tail(segments))

TimecodeNodes(segment) ==
    IF segment.cls = "Timecode" THEN <<segment>>
    ELSE (IF HasAttr(segment, "components")
          THEN TimecodeNodesOfAll(GetAttr(segment, "components")) ELSE <<>>)
         \o (IF HasAttr(segment, "input_segments")
             THEN TimecodeNodesOfAll(GetAttr(segment, "input_segments")) ELSE <<>>)

\* The slots of the composition built from.
CompSlots == content[selected].slots

SlotsOf(cls) == {i \in 1..Len(CompSlots) : CompSlots[i].cls = cls}

\* The frame count of the timecode "hh:mm:ss:ff" at fps frames per second.
TimecodeFrames(tc, fps) ==
    LET digit(c) == CHOOSE d \in 0..9 : DecimalDigits(d) = <<c>>
        two(i) == 10 * digit(tc[i]) + digit(tc[i + 1])
    IN ((two(1) * 60 + two(4)) * 60 + two(7)) * fps + two(10)

\* The start and the flag of the selector's output are those of the node.
FromTimecode(top, node) ==
    /\ TimecodeFrames(top.start_tc_string, top.fps) = node.start
    /\ top.is_drop = node.drop

\* The start and the flag are the defaults.
Defaulted(top) ==
    /\ top.start_tc_string = S_DefaultStart
    /\ top.is_drop = FALSE

\* C25: the selector's drop-frame flag and start are the drop flag and the
\* start of the Timecode node found, in a Timecode slot if there is one,
\* else the first in the tree of the picture slot (a Sequence slot); with
\* no Timecode node there the start is the default 10:00:00:00 and the flag
\* is non-drop.
C25_StartAndDropFlag ==
    pc = "canon_built" =>
        LET top == select_top_sequence(content)
        IN /\ canon.doc.timeline.start = top.start_tc_string
           /\ IF SlotsOf("Timecode") # {}
              THEN \E i \in SlotsOf("Timecode") : FromTimecode(top, CompSlots[i])
              ELSE \E i \in SlotsOf("Sequence") :
                      LET nodes == TimecodeNodes(CompSlots[i])
                      IN IF Len(nodes) = 0 THEN Defaulted(top)
                         ELSE FromTimecode(top, nodes[1])

(***************************************************************************)
(* SpecEffect: the build of a picture track that holds one OperationGroup  *)
(* with at most MaxTags attributes, by either builder.                     *)
(***************************************************************************)
MaxTags == 3

EffectTags ==
    {<<"_EFFECT_PLUGIN_NAME", "Blur FX">>, <<"_CLASS", "BlurClass">>,
     <<"_VENDOR", "Acme">>}

\* The OperationGroup with the attribute list tags.
WithAttributes(segment, tags) ==
    [f \in DOMAIN segment \cup {"attributes"} |->
        IF f = "attributes" THEN tags
        ELSE IF f = "has" THEN segment.has \cup {"attributes"}
        ELSE segment[f]]

EffectNodes ==
    {OperationGroupOf({"length", "operation_def"}, 1, Blur, <<>>),
     OperationGroupOf({"length", "operation_def"}, 1, AuidOperation, <<>>),
     OperationGroupOf({"length"}, 1, Blur, <<>>),
     OperationGroupOf({"length", "operation_def"}, 1, Blur,
                      << <<"input_segments", <<MediaClip>> >> >>)}

InitEffect ==
    /\ pc = "start"
    /\ \E node \in EffectNodes, tags \in SeqsUpTo(EffectTags, MaxTags) :
          slots = <<SequenceOf(<<WithAttributes(node, tags)>>)>>
    /\ clips = <<>>
    /\ processed_ranges = {}
    /\ log = <<>>
    /\ end_offset = 0
    /\ file = "json"
    /\ data = JNull
    /\ outcome = NotCalled
    /\ exit_code = -1
    /\ report_out = "none"
    /\ NothingStored
    /\ NothingResolved
    /\ NothingSelected

SpecEffect == InitEffect /\ [][NextBuild]_vars

\* The OperationGroup of the track, its attribute values under a name, and
\* the name its event carries (None if the event has no name).
TheEffect == GetAttr(slots[1], "components")[1]

TagValues(name) ==
    {TheEffect.attributes[i][2] :
        i \in {k \in 1..Len(TheEffect.attributes) : TheEffect.attributes[k][1] = name}}

EffectNameOf(event) ==
    IF pc = "parsed" THEN event.operation
    ELSE IF Len(event.effect_params.operation) = 1 THEN event.effect_params.operation[1]
    ELSE "Effect_"

\* C26: the name of the event of an OperationGroup is its plugin-name
\* attribute if it has one, wherever it stands in the attribute list, else
\* its plugin-class attribute, else the name of its operation definition,
\* else a sentinel; it is never null.
C26_EffectNamePrecedence ==
    Produced =>
        /\ Len(clips) = 1
        /\ LET name == EffectNameOf(clips[1])
           IN /\ name # PyNone
              /\ IF TagValues("_EFFECT_PLUGIN_NAME") # {}
                 THEN name \in TagValues("_EFFECT_PLUGIN_NAME")
                 ELSE IF TagValues("_CLASS") # {}
                 THEN name \in TagValues("_CLASS")
                 ELSE ("operation_def" \in TheEffect.has /\ TheEffect.operation_def.has_name)
                        => name = TheEffect.operation_def.name

(***************************************************************************)
(* Properties of the report (Spec).                                        *)
(***************************************************************************)
\* An error of the additional validations: its doc is that of the keyframe
\* or the identifier rules, or it is the internal error.
IsAdditional(e) ==
    \/ e.doc \in {DocKeyframes, DocIdentifiers}
    \/ e.code = CANON_INTERNAL_ERROR

\* C27: in a report that validate_canonical_json returns, ok is true
\* exactly when there is no error, summary.failed is the number of errors,
\* summary.reason_codes lists their codes in order, the schema errors stand
\* before the errors of the additional validations, and summary.checked
\* equals summary.failed (0 for a valid document).
C27_ReportConsistent ==
    (pc = "done" /\ outcome.kind = "report") =>
        LET report == outcome.report
            errors == report.errors
        IN /\ report.ok <=> Len(errors) = 0
           /\ report.summary.failed = Len(errors)
           /\ Len(report.summary.reason_codes) = Len(errors)
           /\ \A i \in 1..Len(errors) : report.summary.reason_codes[i] = errors[i].code
           /\ \A i, j \in 1..Len(errors) :
                 (i < j /\ IsAdditional(errors[i])) => IsAdditional(errors[j])
           /\ report.summary.checked = report.summary.failed
           /\ report.ok => report.summary.checked = 0

\* A report with schema errors followed by an error of the additional
\* validations.
C27_Witness ==
    /\ pc = "done"
    /\ outcome.kind = "report"
    /\ Len(outcome.report.errors) >= 2
    /\ ~IsAdditional(outcome.report.errors[1])
    /\ IsAdditional(outcome.report.errors[Len(outcome.report.errors)])
    /\ outcome.report.summary.checked = Len(outcome.report.errors)

\* The frame rate select_top_sequence derives from a slot, and the walk
\* extract_clips_from_comp_mob makes of it.
RateOfSlot(slot) == IF "edit_rate" \in slot.has THEN 24 ELSE 25

WalkOfSlot(slot) == extract_clips_recursive(slot, NoWalk, 0)

\* C28: within one build, the slot the frame rate is derived from is the
\* slot whose segment tree is walked for events, also for a composition
\* with two or more Sequence slots.
C28_OnePictureSlot ==
    pc = "canon_built" =>
        \E i \in SlotsOf("Sequence") :
            /\ i = PictureSlot(CompSlots)
            /\ canon.doc.timeline.rate = RateOfSlot(CompSlots[i])
            /\ log = WalkOfSlot(CompSlots[i]).w.log
            /\ clips = WalkOfSlot(CompSlots[i]).w.clips

(***************************************************************************)
(* Properties of the events against the running offset (SpecWalk).         *)
(***************************************************************************)
\* Every node walked declares a length of at least 0 (a node that declares
\* none has length 0).
LengthsNonNegative == \A j \in 1..Len(WalkedNodes) : LengthOf(WalkedNodes[j]) >= 0

\* The emitting nodes whose range no emitting node walked before them has:
\* the nodes that produce the events, in the order of the events.
ProducingNodes ==
    {j \in EmittingNodesWalked :
        \A i \in EmittingNodesWalked :
            i < j => <<log[i][2], log[i][2] + LengthOf(WalkedNodes[i])>>
                       # <<log[j][2], log[j][2] + LengthOf(WalkedNodes[j])>>}

\* C29: for a segment tree whose declared lengths are all non-negative,
\* each event's end minus start is the declared length of the node that
\* produced it, consecutive events do not overlap (the end of one is at
\* most the start of the next), and the walk of the root returns an offset
\* that is at least the end of the last event.
C29_EventsFollowOffset ==
    (pc = "built" /\ LengthsNonNegative) =>
        /\ Len(clips) = Cardinality(ProducingNodes)
        /\ \A k \in 1..Len(clips) :
              LET j == NthOf(ProducingNodes, k)
              IN /\ clips[k].in = log[j][2]
                 /\ clips[k].out - clips[k].in = LengthOf(WalkedNodes[j])
        /\ \A k \in 1..(Len(clips) - 1) : clips[k].out <= clips[k + 1].in
        /\ Len(clips) > 0 => end_offset >= clips[Len(clips)].out

\* Two abutting events of positive length, then a node that moves the
\* offset past the end of the last event.
C29_Witness ==
    /\ pc = "built"
    /\ LengthsNonNegative
    /\ Len(clips) = 2
    /\ clips[1].out > clips[1].in
    /\ clips[1].out = clips[2].in
    /\ clips[2].out > clips[2].in
    /\ end_offset > clips[2].out

(***************************************************************************)
(* SpecStore: the memory store (adk/utils/memory_store.py) under           *)
(* MaxWriters concurrent calls of write_entry, made by processes that      *)
(* share the store's directory.  One step is one file operation of         *)
(* _append_jsonl.  A line of memory.jsonl is the object written, less its  *)
(* tags and its timestamp.                                                 *)
(***************************************************************************)
MaxWriters == 2

Authors == <<"agent", "human", "system">>
StoreKeys == {"k1", "k2"}
StoreValues == {1, 2}

NoFile == [exists |-> FALSE, lines |-> <<>>]
FileOf(lines) == [exists |-> TRUE, lines |-> lines]

\* The call of write_entry(key, value, author) about to run _append_jsonl.
Call(key, value, author) ==
    [at |-> "open_tmp", key |-> key, value |-> value, author |-> author,
     buf |-> <<>>, error |-> PyNone]

\* obj of _append_jsonl
EntryOf(call) ==
    [action |-> "write", key |-> call.key, value |-> call.value,
     author |-> call.author]

InitStore ==
    /\ pc = "start"
    /\ \E n \in 2..MaxWriters :
       \E keys \in [1..n -> StoreKeys], values \in [1..n -> StoreValues] :
          writers = [w \in 1..n |->
                        Call(keys[w], values[w], Authors[((w - 1) % Len(Authors)) + 1])]
    /\ tmp_file = NoFile
    /\ jsonl = <<>>
    /\ NothingBuilt
    /\ NothingResolved
    /\ NothingSelected
    /\ file = "json"
    /\ data = JNull
    /\ outcome = NotCalled
    /\ exit_code = -1
    /\ report_out = "none"

not_store == <<pc, file, data, outcome, exit_code, report_out,
               slots, clips, processed_ranges, log, end_offset,
               resolver, selection>>

\* open(tmp, "w"): the file is created, or truncated if it exists.
OpenTmp(w) ==
    /\ writers[w].at = "open_tmp"
    /\ tmp_file' = FileOf(<<>>)
    /\ writers' = [writers EXCEPT ![w].at = "write_tmp"]
    /\ UNCHANGED <<jsonl, not_store>>

\* f.write(json.dumps(obj) + "\n") reaches the file when f is closed; if the
\* path has been removed meanwhile the line goes to the unlinked file.
WriteTmp(w) ==
    /\ writers[w].at = "write_tmp"
    /\ tmp_file' = IF tmp_file.exists THEN FileOf(<<EntryOf(writers[w])>>)
                   ELSE tmp_file
    /\ writers' = [writers EXCEPT ![w].at = "read_tmp"]
    /\ UNCHANGED <<jsonl, not_store>>

\* open(JSON_PATH, "a"), open(tmp, "r") and src.read(): FileNotFoundError if
\* the temporary file is not there.
ReadTmp(w) ==
    /\ writers[w].at = "read_tmp"
    /\ writers' = IF tmp_file.exists
                  THEN [writers EXCEPT ![w].at = "append", ![w].buf = tmp_file.lines]
                  ELSE [writers EXCEPT ![w].at = "done",
                                       ![w].error = "FileNotFoundError"]
    /\ UNCHANGED <<tmp_file, jsonl, not_store>>

\* out.write(...) reaches memory.jsonl, at its end, when out is closed.
AppendLog(w) ==
    /\ writers[w].at = "append"
    /\ jsonl' = jsonl \o writers[w].buf
    /\ writers' = [writers EXCEPT ![w].at = "remove"]
    /\ UNCHANGED <<tmp_file, not_store>>

\* os.remove(tmp): FileNotFoundError if the file is not there.
RemoveTmp(w) ==
    /\ writers[w].at = "remove"
    /\ tmp_file' = NoFile
    /\ writers' = IF tmp_file.exists
                  THEN [writers EXCEPT ![w].at = "done"]
                  ELSE [writers EXCEPT ![w].at = "done",
                                       ![w].error = "FileNotFoundError"]
    /\ UNCHANGED <<jsonl, not_store>>

NextStore ==
    \/ \E w \in DOMAIN writers : OpenTmp(w)
    \/ \E w \in DOMAIN writers : WriteTmp(w)
    \/ \E w \in DOMAIN writers : ReadTmp(w)
    \/ \E w \in DOMAIN writers : AppendLog(w)
    \/ \E w \in DOMAIN writers : RemoveTmp(w)

SpecStore == InitStore /\ [][NextStore]_vars

\* read_entry(key) on the lines of memory.jsonl: the last write of the key.
NoEntry == [is_none |-> TRUE, key |-> "", value |-> 0, author |-> ""]

RECURSIVE read_entry_from(_, _, _)
read_entry_from(lines, key, last) ==
    IF Len(lines) = 0 THEN last
    ELSE LET obj == Head(lines)
         IN read_entry_from(Tail(lines), key,
                IF obj.action = "write" /\ obj.key = key
                THEN [is_none |-> FALSE, key |-> key, value |-> obj.value,
                      author |-> obj.author]
                ELSE last)

read_entry(key) == read_entry_from(jsonl, key, NoEntry)

(***************************************************************************)
(* Properties of the memory store (SpecStore).                             *)
(***************************************************************************)
AllReturned == DOMAIN writers # {} /\ \A w \in DOMAIN writers : writers[w].at = "done"

\* How many lines of memory.jsonl are the entry, and how many calls wrote it.
LinesOf(entry) == Cardinality({i \in 1..Len(jsonl) : jsonl[i] = entry})
CallsOf(entry) == Cardinality({w \in DOMAIN writers : EntryOf(writers[w]) = entry})

\* C30: when concurrent write_entry calls have all returned, in whatever
\* order their file operations interleaved, none has raised, memory.jsonl
\* holds the entry of every call exactly once and nothing else, and
\* read_entry(key) returns the value of one of the writes to the key.
C30_ConcurrentWrites ==
    AllReturned =>
        /\ \A w \in DOMAIN writers : writers[w].error = PyNone
        /\ Len(jsonl) = Cardinality(DOMAIN writers)
        /\ \A w \in DOMAIN writers :
              LinesOf(EntryOf(writers[w])) = CallsOf(EntryOf(writers[w]))
        /\ \A w \in DOMAIN writers :
              /\ ~read_entry(writers[w].key).is_none
              /\ \E v \in DOMAIN writers :
                    /\ writers[v].key = writers[w].key
                    /\ read_entry(writers[w].key).value = writers[v].value

====
